---------------------------- MODULE Spec2Model ----------------------------
(***************************************************************************)
(* A state-machine model of the claims-adjudication core of the rideshare  *)
(* bridge API: the community review session (src/routes/review.js), the    *)
(* validator staking and reputation ledger (src/routes/validators.js) and  *)
(* the payout eligibility tiers, payout execution and emergency fund       *)
(* (routes/payouts.js, kept as src/unnamed/part_001), with the escrow and  *)
(* insurance pool services (utils/blockchain.js and the escrow and pool    *)
(* routes, both kept in src/routes/pool.js), the claims routes             *)
(* (src/unnamed/part_002) and the fraud scoring they call                  *)
(* (src/unnamed/part_003).                                                 *)
(*                                                                         *)
(* Every Express handler runs to completion on Node's single thread: none  *)
(* of the handlers modelled here awaits between its checks and its writes, *)
(* so each handler is one atomic action and concurrent requests are the    *)
(* interleavings of these actions.  What a handler answers (its HTTP       *)
(* status) is an output, not state: each handler is an operator from the   *)
(* state it finds and its request to the status it answers and the state   *)
(* it leaves (VoteOutcome, ...), and the action applies that operator.     *)
(*                                                                         *)
(* Numbers.  Fractions the code keeps as floats are kept here as exact     *)
(* integers in a fixed unit: shares, scores and thresholds in hundredths   *)
(* (0.66 is 66), reputation in units of 1/RepScale and stake in units of   *)
(* 1/StakeScale, the scales chosen so that every product the code forms    *)
(* within the bounds is an integer.  Fields no check or branch of the code *)
(* reads are left out: ids and timestamps written for display (voteId,     *)
(* timestamp, completedAt, lastVoteTime, registeredAt), a vote's reasoning *)
(* and confidence, a validator's profileData and its derived accuracy.     *)
(***************************************************************************)
EXTENDS Integers, Sequences, FiniteSets, TLC

VARIABLES
    reviews,      \* review.js `reviews`: reviewId -> review record
    votes,        \* review.js `votes`: juror -> that juror's vote history
    now,          \* the wall clock read by `new Date()`
    validators,   \* validators.js `validators`: wallet -> validator record
    eligibility,  \* payouts: the last calculatePayoutEligibility call
    payouts,      \* payouts `payouts`: the payout records in creation order
    emergencyFund, \* payouts `emergencyFund`
    escrowService, \* routes/escrow.js `blockchainService`
    poolService,   \* routes/pool.js `blockchainService`
    claims,        \* routes/claims.js `claims`, in creation order
    claimReviews,  \* routes/claims.js `reviews`, in creation order
    assessment,    \* fraud scoring: the last assessment computed
    referralDatabase, \* routes/referral.js `referralDatabase`, in creation order
    rewardHistory,    \* routes/referral.js `rewardHistory`
    inflight       \* routes/escrow.js: the handlers suspended at an await,
                   \* in the order their continuations are queued

reviewVars    == <<reviews, votes, now>>
validatorVars == <<validators>>
payoutVars    == <<eligibility, payouts, emergencyFund>>
escrowVars    == <<escrowService, poolService>>
claimVars     == <<claims, claimReviews, assessment>>
referralVars  == <<referralDatabase, rewardHistory>>
vars          == <<reviews, votes, now, validators, eligibility, payouts, emergencyFund,
                   escrowService, poolService, claims, claimReviews, assessment,
                   referralDatabase, rewardHistory, inflight>>

\* JavaScript's null / undefined / missing field.
Null == "null"

-----------------------------------------------------------------------------
(***************************************************************************)
(* Review sessions: src/routes/review.js                                   *)
(***************************************************************************)

\* The clock counts review windows: the mock review is created at time 0
\* with its deadline one window (48 hours) later.
ReviewWindow == 1

\* The clock is followed until MaxTime.
MaxTime == 2

\* The five wallets assigned to the mock review, in the order of the array.
MockJurors == <<"0x742d", "0x853e", "0x1234", "0x9876", "0xABCD">>

\* A wallet that is assigned to no review.
Outsiders == {"0xFFFF"}

Wallets == {MockJurors[i] : i \in 1..Len(MockJurors)} \cup Outsiders

validDecisions == {"approve", "deny", "need_info"}

MockReviewId == "review_mock123"

\* consensusThreshold 0.66, in hundredths.
ConsensusThreshold == 66

mockReview ==
    [ reviewId           |-> MockReviewId,
      jurors             |-> MockJurors,
      votes              |-> <<>>,
      deadline           |-> 0 + ReviewWindow,
      status             |-> "in_review",
      finalDecision      |-> Null,
      consensusThreshold |-> ConsensusThreshold ]

\* review.jurors.includes(juror)
IsAssigned(review, juror) ==
    \E i \in 1..Len(review.jurors) : review.jurors[i] = juror

\* A handler that forgets the duplicate check.
AlreadyVoted_Unchecked(review, juror) == FALSE

\* review.votes.find(v => v.juror === juror) is truthy
AlreadyVoted(review, juror) ==
    \E i \in 1..Len(review.votes) : review.votes[i].juror = juror

\* A comparison of the clock with the deadline that never holds (a Date
\* compared with the unparsed ISO string).
DeadlinePassed_Never(review, t) == FALSE

\* new Date() > new Date(review.deadline)
DeadlinePassed(review, t) == t > review.deadline

\* The keys of voteCount in insertion order: each decision at its first vote.
RECURSIVE DecisionKeys(_)
DecisionKeys(vs) ==
    IF vs = <<>> THEN <<>>
    ELSE LET init == SubSeq(vs, 1, Len(vs) - 1)
             keys == DecisionKeys(init)
             d    == vs[Len(vs)].decision
         IN  IF \E i \in 1..Len(keys) : keys[i] = d THEN keys ELSE Append(keys, d)

\* voteCount[decision]
VoteCount(vs, d) == Cardinality({i \in 1..Len(vs) : vs[i].decision = d})

\* The forEach over Object.entries(voteCount): a key replaces the leader only
\* when its count is strictly greater.
RECURSIVE LeadingFrom(_, _, _, _)
LeadingFrom(vs, keys, maxVotes, leadingDecision) ==
    IF keys = <<>> THEN [maxVotes |-> maxVotes, leadingDecision |-> leadingDecision]
    ELSE LET count == VoteCount(vs, Head(keys))
         IN  IF count > maxVotes
             THEN LeadingFrom(vs, Tail(keys), count, Head(keys))
             ELSE LeadingFrom(vs, Tail(keys), maxVotes, leadingDecision)

\* Math.round(x / y * 100) for x >= 0, y > 0.
RoundPercent(x, y) == (200 * x + y) \div (2 * y)

\* maxVotes / review.votes.length >= review.consensusThreshold
ThresholdMet(maxVotes, total, threshold) == 100 * maxVotes >= threshold * total

\* A consensus computed over the assigned panel instead of the votes recorded.
checkConsensus_OverPanel(review) ==
    IF Len(review.votes) = 0
    THEN [reached |-> FALSE, decision |-> Null, percentage |-> 0]
    ELSE LET lead == LeadingFrom(review.votes, DecisionKeys(review.votes), 0, Null)
         IN  [ reached    |-> ThresholdMet(lead.maxVotes, Len(review.jurors),
                                           review.consensusThreshold),
               decision   |-> lead.leadingDecision,
               percentage |-> RoundPercent(lead.maxVotes, Len(review.jurors)) ]

checkConsensus(review) ==
    IF Len(review.votes) = 0
    THEN [reached |-> FALSE, decision |-> Null, percentage |-> 0]
    ELSE LET lead == LeadingFrom(review.votes, DecisionKeys(review.votes), 0, Null)
         IN  [ reached    |-> ThresholdMet(lead.maxVotes, Len(review.votes),
                                           review.consensusThreshold),
               decision   |-> lead.leadingDecision,
               percentage |-> RoundPercent(lead.maxVotes, Len(review.votes)) ]

\* A finalize that completes the review whatever the consensus.
finalizeReview_Always(review) ==
    [review EXCEPT !.status = "completed",
                   !.finalDecision = checkConsensus(review).decision]

finalizeReview(review) ==
    LET consensus == checkConsensus(review)
    IN  IF consensus.reached
        THEN [review EXCEPT !.status = "completed",
                            !.finalDecision = consensus.decision]
        ELSE [review EXCEPT !.status = "no_consensus"]

\* A handler that finalizes after every vote.
AllVotesIn_EveryVote(review) == TRUE

\* `if (voteCount === jurorCount)`: the only call of finalizeReview.
AllVotesIn(review) == Len(review.votes) = Len(review.jurors)

\* The requests tried: every well-formed vote, and one request for each way
\* of failing validation or lookup.
\* `confidence` is <<>> when the body has none and <<c>>, in hundredths, when
\* it has one; a `reasoning` of "" is the empty string of the body.
VoteRequests ==
    [reviewId : {MockReviewId}, juror : Wallets, decision : validDecisions,
     reasoning : {"because"}, confidence : {<<>>}]
    \cup
    [reviewId : {MockReviewId}, juror : {MockJurors[1]}, decision : {"approve"},
     reasoning : {"because"}, confidence : {<<0>>, <<150>>}]
    \cup
    { [reviewId |-> MockReviewId, juror |-> Null, decision |-> "approve", reasoning |-> "because", confidence |-> <<>>],
      [reviewId |-> MockReviewId, juror |-> MockJurors[1], decision |-> Null, reasoning |-> "because", confidence |-> <<>>],
      [reviewId |-> MockReviewId, juror |-> MockJurors[1], decision |-> "approve", reasoning |-> Null, confidence |-> <<>>],
      [reviewId |-> MockReviewId, juror |-> MockJurors[1], decision |-> "approve", reasoning |-> "", confidence |-> <<>>],
      [reviewId |-> MockReviewId, juror |-> MockJurors[1], decision |-> "maybe", reasoning |-> "because", confidence |-> <<>>],
      [reviewId |-> "review_unknown", juror |-> MockJurors[1], decision |-> "approve", reasoning |-> "because", confidence |-> <<>>] }

\* `confidence || 0.75`: an absent or zero confidence is recorded as 0.75,
\* any other as given.
recordedConfidence(confidence) ==
    IF confidence = <<>> \/ confidence[1] = 0 THEN 75 ELSE confidence[1]

\* What POST /:reviewId/vote answers and writes, from the state it finds.
VoteOutcome(req, rs, vh, t) ==
    LET same == [code |-> 0, reviews |-> rs, votes |-> vh] IN
    IF req.juror = Null \/ req.decision = Null \/ req.reasoning \in {Null, ""}
    THEN [same EXCEPT !.code = 400]
    ELSE IF req.decision \notin validDecisions
    THEN [same EXCEPT !.code = 400]
    ELSE IF req.reviewId \notin DOMAIN rs
    THEN [same EXCEPT !.code = 404]
    ELSE LET review == rs[req.reviewId] IN
    IF ~IsAssigned(review, req.juror)
    THEN [same EXCEPT !.code = 403]
    ELSE IF AlreadyVoted(review, req.juror)
    THEN [same EXCEPT !.code = 409]
    ELSE IF DeadlinePassed(review, t)
    THEN [same EXCEPT !.code = 410]
    ELSE LET vote     == [juror |-> req.juror, decision |-> req.decision,
                          reasoning |-> req.reasoning,
                          confidence |-> recordedConfidence(req.confidence)]
             recorded == [review EXCEPT !.votes = Append(@, vote)]
             final    == IF AllVotesIn(recorded) THEN finalizeReview(recorded)
                         ELSE recorded
         IN  [ code    |-> 200,
               reviews |-> [rs EXCEPT ![req.reviewId] = final],
               votes   |-> [vh EXCEPT ![req.juror] = Append(@, vote)] ]

SubmitVote(req) ==
    LET out == VoteOutcome(req, reviews, votes, now)
    IN  /\ reviews' = out.reviews
        /\ votes' = out.votes
        /\ UNCHANGED <<now, validators, eligibility, payouts, emergencyFund, escrowVars, claimVars, referralVars, inflight>>

\* Time passes.
Tick ==
    /\ now < MaxTime
    /\ now' = now + 1
    /\ UNCHANGED <<reviews, votes, validators, eligibility, payouts, emergencyFund, escrowVars, claimVars, referralVars, inflight>>

-----------------------------------------------------------------------------
(***************************************************************************)
(* Validators: src/routes/validators.js                                    *)
(***************************************************************************)

\* At most MaxVoteResults vote results and MaxSlashes slashings are applied
\* to one validator, and no stake is raised above MaxStake tokens.
MaxVoteResults == 3
MaxSlashes == 2
MaxStake == 2000

RECURSIVE Pow(_, _)
Pow(b, n) == IF n = 0 THEN 1 ELSE b * Pow(b, n - 1)

\* Reputation is counted in units of 1/RepScale point and stake in units of
\* 1/StakeScale token: a reward or penalty divides by 20 or 10 and a slashing
\* by 10, so within the bounds every quotient below is exact.
RepScale == Pow(20, MaxVoteResults)
StakeScale == Pow(10, MaxSlashes)

Min(a, b) == IF a <= b THEN a ELSE b
Max(a, b) == IF a >= b THEN a ELSE b

\* reputationDecay 0.1 and reputationBonus 0.05 in hundredths.
stakingConfig ==
    [ minimumStake     |-> 1000,
      slashPercentage  |-> 10,
      reputationDecay  |-> 10,
      reputationBonus  |-> 5 ]

\* The wallet that registers; the outsider never does.
ValidatorWallets == {MockJurors[1]}

\* /^0x[a-fA-F0-9]{40}$/, on the shortened wallets used here.
ValidAddress(w) == w \in Wallets

\* The record POST /register creates.  lastSlashTime is the empty sequence
\* for null and <<t>> once set.
NewValidator(walletAddress, stakeAmount) ==
    [ walletAddress      |-> walletAddress,
      stakedAmount       |-> stakeAmount * StakeScale,
      reputation         |-> 500 * RepScale,
      correctVotes       |-> 0,
      totalVotes         |-> 0,
      active             |-> TRUE,
      lastSlashTime      |-> <<>>,
      deactivationReason |-> Null,
      slashingHistory    |-> <<>> ]

\* validators.set(key, value)
MapSet(vs, key, value) ==
    [w \in DOMAIN vs \cup {key} |-> IF w = key THEN value ELSE vs[w]]

\* Math.min(1000, reputation + reputation * reputationBonus)
Rewarded(reputation) ==
    Min(1000 * RepScale,
        reputation + (reputation * stakingConfig.reputationBonus) \div 100)

\* Math.max(0, reputation - reputation * reputationDecay)
Penalized(reputation) ==
    Max(0, reputation - (reputation * stakingConfig.reputationDecay) \div 100)

\* An update computed from the reputation read at registration and written
\* back over the current one: the updates applied in between are lost.
updateValidatorReputation_Stale(validator, correct) ==
    IF correct
    THEN [validator EXCEPT !.totalVotes = @ + 1,
                           !.correctVotes = @ + 1,
                           !.reputation = Rewarded(500 * RepScale)]
    ELSE [validator EXCEPT !.totalVotes = @ + 1,
                           !.reputation = Penalized(500 * RepScale)]

\* updateValidatorReputation, on the record found.
updateValidatorReputation(validator, correct) ==
    IF correct
    THEN [validator EXCEPT !.totalVotes = @ + 1,
                           !.correctVotes = @ + 1,
                           !.reputation = Rewarded(@)]
    ELSE [validator EXCEPT !.totalVotes = @ + 1,
                           !.reputation = Penalized(@)]

\* A slashing that takes `amount` tokens instead of `amount` percent.
executeSlashing_Flat(validator, reason, amount, t) ==
    LET slashAmount == amount * StakeScale
        slashed ==
            [validator EXCEPT
                !.stakedAmount = @ - slashAmount,
                !.reputation = Max(0, @ - 50 * RepScale),
                !.lastSlashTime = <<t>>,
                !.slashingHistory =
                    Append(@, [reason |-> reason, amount |-> slashAmount,
                               newStake |-> validator.stakedAmount - slashAmount,
                               newReputation |-> Max(0, validator.reputation - 50 * RepScale)])]
    IN  [validator |-> slashed, slashAmount |-> slashAmount]

\* executeSlashing, on the record found: `amount` is the percentage.
executeSlashing(validator, reason, amount, t) ==
    LET slashAmount   == (validator.stakedAmount * amount) \div 100
        newStake      == validator.stakedAmount - slashAmount
        newReputation == Max(0, validator.reputation - 50 * RepScale)
        slashed ==
            [validator EXCEPT
                !.stakedAmount = newStake,
                !.reputation = newReputation,
                !.lastSlashTime = <<t>>,
                !.slashingHistory =
                    Append(@, [reason |-> reason, amount |-> slashAmount,
                               newStake |-> newStake,
                               newReputation |-> newReputation])]
    IN  [ validator |->
              IF newStake < stakingConfig.minimumStake * StakeScale
              THEN [slashed EXCEPT
                      !.active = FALSE,
                      !.deactivationReason = "Insufficient stake after slashing"]
              ELSE slashed,
          slashAmount |-> slashAmount ]

RegisterRequests ==
    [walletAddress : ValidatorWallets, stakeAmount : {500, 999, 1000, 2000}]
    \cup {[walletAddress |-> "not-a-wallet", stakeAmount |-> 1000]}

\* A schema with no minimum on the stake.
StakeTooLow_Unchecked(stakeAmount) == FALSE

\* stakeAmount fails Joi.number().min(stakingConfig.minimumStake)
StakeTooLow(stakeAmount) == stakeAmount < stakingConfig.minimumStake

\* POST /register
RegisterOutcome(req, vs) ==
    IF ~ValidAddress(req.walletAddress) \/ StakeTooLow(req.stakeAmount)
    THEN [code |-> 400, validators |-> vs]
    ELSE IF req.walletAddress \in DOMAIN vs
    THEN [code |-> 409, validators |-> vs]
    ELSE [code |-> 201,
          validators |-> MapSet(vs, req.walletAddress,
                                NewValidator(req.walletAddress, req.stakeAmount))]

Register(req) ==
    /\ validators' = RegisterOutcome(req, validators).validators
    /\ UNCHANGED <<reviews, votes, now, eligibility, payouts, emergencyFund, escrowVars, claimVars, referralVars, inflight>>

StakeRequests ==
    [walletAddress : ValidatorWallets \cup Outsiders,
     action : {"increase", "decrease"}, amount : {500, 1500}]
    \cup {[walletAddress |-> MockJurors[1], action |-> "decrease", amount |-> 0],
          [walletAddress |-> MockJurors[1], action |-> "withdraw", amount |-> 500]}

\* A withdrawal that is not checked against the stake.
Overdrawn_Unchecked(validator, amount) == FALSE

\* validator.stakedAmount - amount < 0
Overdrawn(validator, amount) == validator.stakedAmount - amount * StakeScale < 0

\* A stake change that leaves the active flag as it finds it.
Reactivated_Kept(validator) == validator

\* A stake change that reactivates whatever the reason of the deactivation.
Reactivated_AnyReason(validator) ==
    IF validator.stakedAmount < stakingConfig.minimumStake * StakeScale /\ validator.active
    THEN [validator EXCEPT !.active = FALSE,
                           !.deactivationReason = "Stake below minimum requirement"]
    ELSE IF /\ validator.stakedAmount >= stakingConfig.minimumStake * StakeScale
            /\ ~validator.active
    THEN [validator EXCEPT !.active = TRUE]
    ELSE validator

\* The active flag after a stake change.
Reactivated(validator) ==
    IF validator.stakedAmount < stakingConfig.minimumStake * StakeScale /\ validator.active
    THEN [validator EXCEPT !.active = FALSE,
                           !.deactivationReason = "Stake below minimum requirement"]
    ELSE IF /\ validator.stakedAmount >= stakingConfig.minimumStake * StakeScale
            /\ ~validator.active
            /\ validator.deactivationReason = "Stake below minimum requirement"
    THEN [validator EXCEPT !.active = TRUE]
    ELSE validator

\* POST /stake
StakeOutcome(req, vs) ==
    IF req.action \notin {"increase", "decrease"} \/ ~(req.amount > 0)
          \/ ~ValidAddress(req.walletAddress)
    THEN [code |-> 400, validators |-> vs]
    ELSE IF req.walletAddress \notin DOMAIN vs
    THEN [code |-> 404, validators |-> vs]
    ELSE LET validator == vs[req.walletAddress] IN
    IF req.action = "increase"
    THEN [code |-> 200,
          validators |-> MapSet(vs, req.walletAddress,
              Reactivated([validator EXCEPT !.stakedAmount = @ + req.amount * StakeScale]))]
    ELSE IF Overdrawn(validator, req.amount)
    THEN [code |-> 422, validators |-> vs]
    ELSE [code |-> 200,
          validators |-> MapSet(vs, req.walletAddress,
              Reactivated([validator EXCEPT !.stakedAmount = @ - req.amount * StakeScale]))]

Stake(req) ==
    LET out == StakeOutcome(req, validators) IN
    /\ \A w \in DOMAIN out.validators :
          out.validators[w].stakedAmount <= MaxStake * StakeScale
    /\ validators' = out.validators
    /\ UNCHANGED <<reviews, votes, now, eligibility, payouts, emergencyFund, escrowVars, claimVars, referralVars, inflight>>

SlashRequests ==
    [validatorAddress : ValidatorWallets \cup Outsiders,
     reason : {"collusion"}]
    \cup {[validatorAddress |-> MockJurors[1], reason |-> "spite"]}

\* POST /slash
SlashOutcome(req, vs, t) ==
    IF ~ValidAddress(req.validatorAddress)
          \/ req.reason \notin {"incorrect_vote", "malicious_behavior", "collusion", "negligence"}
    THEN [code |-> 400, validators |-> vs]
    ELSE IF req.validatorAddress \notin DOMAIN vs
    THEN [code |-> 404, validators |-> vs]
    ELSE [code |-> 200,
          validators |-> MapSet(vs, req.validatorAddress,
              executeSlashing(vs[req.validatorAddress], req.reason,
                              stakingConfig.slashPercentage, t).validator)]

Slash(req) ==
    /\ \A w \in DOMAIN validators : Len(validators[w].slashingHistory) < MaxSlashes
    /\ validators' = SlashOutcome(req, validators, now).validators
    /\ UNCHANGED <<reviews, votes, now, eligibility, payouts, emergencyFund, escrowVars, claimVars, referralVars, inflight>>

\* The body of a vote-result report: `correct` as the JSON text sent.
VoteResultRequests ==
    [walletAddress : ValidatorWallets \cup Outsiders,
     correct : {"true", "false"}, consensusReached : BOOLEAN]
    \cup {[walletAddress |-> MockJurors[1], correct |-> "\"yes\"", consensusReached |-> TRUE]}

\* POST /:walletAddress/vote-result
VoteResultOutcome(req, vs) ==
    IF req.correct \notin {"true", "false"}
    THEN [code |-> 400, validators |-> vs]
    ELSE IF req.walletAddress \notin DOMAIN vs
    THEN [code |-> 404, validators |-> vs]
    ELSE [code |-> 200,
          validators |-> MapSet(vs, req.walletAddress,
              updateValidatorReputation(vs[req.walletAddress], req.correct = "true"))]

VoteResult(req) ==
    /\ \A w \in DOMAIN validators : validators[w].totalVotes < MaxVoteResults
    /\ validators' = VoteResultOutcome(req, validators).validators
    /\ UNCHANGED <<reviews, votes, now, eligibility, payouts, emergencyFund, escrowVars, claimVars, referralVars, inflight>>

\* The cooling-off period after a slashing, 30 days, in review windows of 48
\* hours; the validators' clock is followed until MaxClock.
CoolingOff == 15
MaxClock == 16

\* A check that never finds a validator in its cooling-off period.
RecentlySlashed_Never(validator, t) == FALSE

\* lastSlashTime && Date.now() - new Date(lastSlashTime).getTime() < 30 days
RecentlySlashed(validator, t) ==
    /\ validator.lastSlashTime # <<>>
    /\ t - validator.lastSlashTime[1] < CoolingOff

\* The score with an accuracy of 0 before the first vote.
TotalScore_NoVotesZero(validator) ==
    LET reputation == Min(validator.reputation, 1000 * RepScale)
        stake      == Min(validator.stakedAmount,
                          5 * stakingConfig.minimumStake * StakeScale)
    IN  400 * (reputation \div RepScale)
        + (400 * (reputation % RepScale)) \div RepScale
        + (60 * stake) \div StakeScale
        + (IF validator.totalVotes > 0
           THEN (300000 * validator.correctVotes) \div validator.totalVotes
           ELSE 0)

\* totalScore in millionths, each term rounded down: 40% reputation / 1000,
\* 30% stake / (5 * minimumStake), both capped at 1, and 30% accuracy, or
\* 0.15 before the first vote.
TotalScore(validator) ==
    LET reputation      == Min(validator.reputation, 1000 * RepScale)
        reputationScore == 400 * (reputation \div RepScale)
                           + (400 * (reputation % RepScale)) \div RepScale
        stake           == Min(validator.stakedAmount,
                               5 * stakingConfig.minimumStake * StakeScale)
        stakeScore      == (60 * stake) \div StakeScale
        accuracyScore   == IF validator.totalVotes > 0
                           THEN (300000 * validator.correctVotes) \div validator.totalVotes
                           ELSE 150000
    IN  reputationScore + stakeScore + accuracyScore

\* calculateValidatorEligibility, at time t.
calculateValidatorEligibility(validator, t) ==
    IF validator.stakedAmount < stakingConfig.minimumStake * StakeScale
    THEN [eligible |-> FALSE, reason |-> "Insufficient stake", score |-> 0]
    ELSE IF validator.reputation < 400 * RepScale
    THEN [eligible |-> FALSE, reason |-> "Low reputation score", score |-> 0]
    ELSE IF RecentlySlashed(validator, t)
    THEN [eligible |-> FALSE, reason |-> "Recently slashed - cooling off period",
          score |-> 0]
    ELSE [eligible |-> TotalScore(validator) >= 600000, reason |-> Null,
          score |-> TotalScore(validator)]

\* The handler of GET /:walletAddress.
GetValidatorOutcome(walletAddress, vs, t) ==
    IF walletAddress \notin DOMAIN vs
    THEN [code |-> 404, eligible |-> FALSE]
    ELSE [code |-> 200,
          eligible |-> calculateValidatorEligibility(vs[walletAddress], t).eligible]

\* The handler of GET /eligible: the wallets of the list it builds.  minScore
\* is in millionths.  Of the validators that pass the filter the list keeps
\* the `limit` highest scores.  (The router registers GET /:walletAddress
\* before GET /eligible, so a request for /eligible is answered by
\* GetValidatorOutcome for the wallet "eligible".)
eligibleValidators(vs, t, minScore, limit) ==
    LET Score(w) == calculateValidatorEligibility(vs[w], t).score
        passing  == {w \in DOMAIN vs :
                        /\ vs[w].active
                        /\ calculateValidatorEligibility(vs[w], t).eligible
                        /\ Score(w) >= minScore}
    IN  IF Cardinality(passing) <= limit THEN passing
        ELSE CHOOSE top \in SUBSET passing :
                 /\ Cardinality(top) = limit
                 /\ \A a \in top, b \in passing \ top : Score(a) >= Score(b)

\* The query strings tried on GET /eligible: the defaults, and a list of at
\* most one validator with any score.
EligibleQueries == {[minScore |-> 600000, limit |-> 10], [minScore |-> 0, limit |-> 1]}

\* The stable sort of the list by score, highest first.
RECURSIVE SortedByScore(_)
SortedByScore(entries) ==
    IF entries = <<>> THEN <<>>
    ELSE LET last  == entries[Len(entries)]
             rest  == SortedByScore(SubSeq(entries, 1, Len(entries) - 1))
             ahead == Cardinality({i \in 1..Len(rest) : rest[i].score >= last.score})
         IN  SubSeq(rest, 1, ahead) \o <<last>> \o SubSeq(rest, ahead + 1, Len(rest))

\* The list GET /eligible builds from the validators in `wallets`, the
\* order they registered in: map, filter, sort and slice.
eligibleList(vs, wallets, t, minScore, limit) ==
    LET entries == [i \in 1..Len(wallets) |->
                       [ walletAddress |-> wallets[i],
                         active        |-> vs[wallets[i]].active,
                         eligible      |-> calculateValidatorEligibility(vs[wallets[i]], t).eligible,
                         score         |-> calculateValidatorEligibility(vs[wallets[i]], t).score ]]
        Passes(v)  == v.active /\ v.eligible /\ v.score >= minScore
        sorted     == SortedByScore(SelectSeq(entries, Passes))
    IN  SubSeq(sorted, 1, Min(limit, Len(sorted)))

\* Time passes for the validators: one window, or one window less than the
\* cooling-off period.
Elapse(d) ==
    /\ now + d <= MaxClock
    /\ now' = now + d
    /\ UNCHANGED <<reviews, votes, validators, eligibility, payouts, emergencyFund, escrowVars, claimVars, referralVars, inflight>>

-----------------------------------------------------------------------------
(***************************************************************************)
(* Payout eligibility: routes/payouts.js (src/unnamed/part_001)            *)
(***************************************************************************)

\* Claim amounts around the two ceilings, and scores and approval rates (in
\* hundredths) around the thresholds.
ClaimAmounts == {500, 1000, 1001, 5000, 50000, 50001, 60000}
FraudScores == {0, 15, 29, 30, 45, 49, 50, 69, 70, 100}
ApprovalRates == {0, 65, 66, 85, 100}

ValidationResults ==
    [aiApproved : BOOLEAN, communityConsensus : BOOLEAN,
     fraudScore : FraudScores, jurorApprovalRate : ApprovalRates]

\* The tiers with the high-value check moved to the front.
calculatePayoutEligibility_ManualFirst(claim, validationResults) ==
    LET vr == validationResults IN
    IF claim.claimAmount > 50000
    THEN [eligible |-> FALSE, trigger |-> "MANUAL_REVIEW_REQUIRED"]
    ELSE IF claim.claimAmount <= 1000 /\ vr.fraudScore < 30 /\ vr.aiApproved
    THEN [eligible |-> TRUE, trigger |-> "AI_APPROVED"]
    ELSE IF vr.communityConsensus /\ vr.jurorApprovalRate >= 66 /\ vr.fraudScore < 50
    THEN [eligible |-> TRUE, trigger |-> "COMMUNITY_CONSENSUS"]
    ELSE IF vr.fraudScore >= 70
    THEN [eligible |-> FALSE, trigger |-> "FRAUD_DETECTED"]
    ELSE [eligible |-> FALSE, trigger |-> "INSUFFICIENT_VALIDATION"]

\* The tiers with the fraud check moved before the high-value check.
calculatePayoutEligibility_FraudFirst(claim, validationResults) ==
    LET vr == validationResults IN
    IF claim.claimAmount <= 1000 /\ vr.fraudScore < 30 /\ vr.aiApproved
    THEN [eligible |-> TRUE, trigger |-> "AI_APPROVED"]
    ELSE IF vr.communityConsensus /\ vr.jurorApprovalRate >= 66 /\ vr.fraudScore < 50
    THEN [eligible |-> TRUE, trigger |-> "COMMUNITY_CONSENSUS"]
    ELSE IF vr.fraudScore >= 70
    THEN [eligible |-> FALSE, trigger |-> "FRAUD_DETECTED"]
    ELSE IF claim.claimAmount > 50000
    THEN [eligible |-> FALSE, trigger |-> "MANUAL_REVIEW_REQUIRED"]
    ELSE [eligible |-> FALSE, trigger |-> "INSUFFICIENT_VALIDATION"]

calculatePayoutEligibility(claim, validationResults) ==
    LET vr == validationResults IN
    IF claim.claimAmount <= 1000 /\ vr.fraudScore < 30 /\ vr.aiApproved
    THEN [eligible |-> TRUE, trigger |-> "AI_APPROVED"]
    ELSE IF vr.communityConsensus /\ vr.jurorApprovalRate >= 66 /\ vr.fraudScore < 50
    THEN [eligible |-> TRUE, trigger |-> "COMMUNITY_CONSENSUS"]
    ELSE IF claim.claimAmount > 50000
    THEN [eligible |-> FALSE, trigger |-> "MANUAL_REVIEW_REQUIRED"]
    ELSE IF vr.fraudScore >= 70
    THEN [eligible |-> FALSE, trigger |-> "FRAUD_DETECTED"]
    ELSE [eligible |-> FALSE, trigger |-> "INSUFFICIENT_VALIDATION"]

\* No call of calculatePayoutEligibility yet.
NotEvaluated ==
    [ claimAmount       |-> 0,
      validationResults |-> [aiApproved |-> FALSE, communityConsensus |-> FALSE,
                             fraudScore |-> 0, jurorApprovalRate |-> 0],
      result            |-> [eligible |-> FALSE, trigger |-> Null] ]

\* One call of calculatePayoutEligibility, its arguments and what it returned.
Evaluate(claimAmount, validationResults) ==
    /\ eligibility' =
          [ claimAmount       |-> claimAmount,
            validationResults |-> validationResults,
            result            |-> calculatePayoutEligibility(
                                     [claimAmount |-> claimAmount], validationResults) ]
    /\ UNCHANGED <<reviews, votes, now, validators, payouts, emergencyFund, escrowVars, claimVars, referralVars, inflight>>

-----------------------------------------------------------------------------
(***************************************************************************)
(* Payout execution and the emergency fund: routes/payouts.js              *)
(* (src/unnamed/part_001)                                                  *)
(*                                                                         *)
(* A payout's id is a fresh uuid: a payout is identified here by its place *)
(* in the order of creation.  The timer executePayout sets for a payout is *)
(* pending exactly while the payout's status is "processing".  The random  *)
(* beneficiary wallet, transaction hash and gas of a payout, and the       *)
(* emergencyActive and activationThreshold fields of the fund, are read by *)
(* no branch and left out.                                                 *)
(*                                                                         *)
(* checkEmergencyConditions computes its answer from pool statistics that  *)
(* the code writes as one literal sample (mockPoolStats), under which no   *)
(* emergency is active.  The statistics are an input of the emergency      *)
(* request here, drawn from PoolStatsSamples: the literal, and samples on  *)
(* either side of each of the three thresholds.                            *)
(***************************************************************************)

\* At most MaxPayouts payouts are created.
MaxPayouts == 3

\* The emergencyFund object as the module creates it.
emergencyFundAtLoad ==
    [ totalFund       |-> 1000000,
      availableAmount |-> 800000,
      lastActivation  |-> <<>> ]

\* The statistics written in checkEmergencyConditions.
mockPoolStats ==
    [ totalFunds         |-> 5000000,
      pendingClaims      |-> 3800000,
      recentClaimsCount  |-> 45,
      availableLiquidity |-> 600000 ]

\* The literal, a pool half in use, and for each threshold the value on it and
\* the first value past it.
PoolStatsSamples ==
    { mockPoolStats,
      [mockPoolStats EXCEPT !.pendingClaims = 2500000],
      [mockPoolStats EXCEPT !.pendingClaims = 4000000],
      [mockPoolStats EXCEPT !.pendingClaims = 4000001],
      [mockPoolStats EXCEPT !.recentClaimsCount = 50],
      [mockPoolStats EXCEPT !.recentClaimsCount = 51],
      [mockPoolStats EXCEPT !.availableLiquidity = 500000],
      [mockPoolStats EXCEPT !.availableLiquidity = 499999] }

\* A check that finds an emergency whatever the statistics.
checkEmergencyConditions_AlwaysActive(stats) ==
    [ emergencyActive    |-> TRUE,
      massClaimEvent     |-> stats.recentClaimsCount > 50,
      liquidityShortfall |-> 10 * stats.availableLiquidity < stats.totalFunds ]

\* pendingClaims / totalFunds > 0.8, recentClaimsCount > 50,
\* availableLiquidity < totalFunds * 0.1
checkEmergencyConditions(stats) ==
    LET poolUtilizationHigh == 10 * stats.pendingClaims > 8 * stats.totalFunds
        massClaimEvent      == stats.recentClaimsCount > 50
        liquidityShortfall  == 10 * stats.availableLiquidity < stats.totalFunds
    IN  [ emergencyActive    |-> poolUtilizationHigh \/ massClaimEvent \/ liquidityShortfall,
          massClaimEvent     |-> massClaimEvent,
          liquidityShortfall |-> liquidityShortfall ]

\* executePayout: the record it stores.
executePayout(claim, amount, trigger) ==
    [ claimId |-> claim.claimId,
      amount  |-> amount,
      trigger |-> trigger,
      status  |-> "processing" ]

\* A timer callback that leaves the payout as it is.
Settled_Never(payout) == payout

\* The callback of the timer set by executePayout.
Settled(payout) == [payout EXCEPT !.status = "completed"]

\* The claim the /execute handler looks up: the same for every claimId.
MockClaim(claimId) == [claimId |-> claimId, claimAmount |-> 5000]

\* No override object in the body.
NoOverride ==
    [present |-> FALSE, enabled |-> FALSE, reason |-> Null, authorizedBy |-> Null]

Overrides ==
    {NoOverride} \cup
    [present : {TRUE}, enabled : BOOLEAN,
     reason : {Null, "goodwill"}, authorizedBy : {Null, "admin"}]

\* A schema that asks for no reason and no authorizer.
OverrideComplete_Lax(override) == TRUE

\* reason and authorizedBy: required when `enabled` is true.
OverrideComplete(override) ==
    override.enabled => (override.reason # Null /\ override.authorizedBy # Null)

\* Validation results as /execute receives them: fraud scores and approval
\* rates in hundredths, and one fraud score above 1.
ExecuteValidationResults ==
    [aiApproved : BOOLEAN, communityConsensus : BOOLEAN,
     fraudScore : {15, 45, 50, 70, 150}, jurorApprovalRate : {65, 66}]

ExecuteRequests ==
    [claimId : {"claim_1", Null}, validationResults : ExecuteValidationResults,
     override : Overrides]

\* payoutExecutionSchema.validate(req.body) reports no error
ExecuteValid(req) ==
    /\ req.claimId # Null
    /\ req.validationResults.fraudScore \in 0..100
    /\ req.validationResults.jurorApprovalRate \in 0..100
    /\ OverrideComplete(req.override)

\* `if (override?.enabled && !eligibility.eligible)`
Overridden(eligible, override) ==
    IF override.enabled /\ ~eligible.eligible
    THEN [eligible |-> TRUE, trigger |-> "MANUAL_OVERRIDE"]
    ELSE eligible

\* A handler that pays whatever the decision.
Ineligible_Ignored(eligible) == FALSE

\* `if (!eligibility.eligible)`
Ineligible(eligible) == ~eligible.eligible

\* What POST /execute answers and writes.
ExecuteOutcome(req, ps) ==
    IF ~ExecuteValid(req)
    THEN [code |-> 400, trigger |-> Null, payouts |-> ps]
    ELSE LET claim    == MockClaim(req.claimId)
             eligible == Overridden(
                             calculatePayoutEligibility(claim, req.validationResults),
                             req.override)
         IN  IF Ineligible(eligible)
             THEN [code |-> 422, trigger |-> eligible.trigger, payouts |-> ps]
             ELSE [code |-> 201, trigger |-> eligible.trigger,
                   payouts |-> Append(ps, executePayout(claim, claim.claimAmount,
                                                        eligible.trigger))]

Execute(req) ==
    /\ Len(payouts) < MaxPayouts
    /\ payouts' = ExecuteOutcome(req, payouts).payouts
    /\ UNCHANGED <<reviews, votes, now, validators, eligibility, emergencyFund, escrowVars, claimVars, referralVars, inflight>>

EmergencyRequests ==
    [claimId : {"claim_1"}, amount : {300000, 500000, 900000},
     emergencyReason : {"mass_event"}, authorizedBy : {"admin"}]
    \cup
    { [claimId |-> "claim_1", amount |-> 0,
       emergencyReason |-> "mass_event", authorizedBy |-> "admin"],
      [claimId |-> "claim_1", amount |-> 300000,
       emergencyReason |-> "panic", authorizedBy |-> "admin"],
      [claimId |-> "claim_1", amount |-> 300000,
       emergencyReason |-> "mass_event", authorizedBy |-> Null] }

\* emergencyPayoutSchema.validate(req.body) reports no error
EmergencyValid(req) ==
    /\ req.claimId # Null
    /\ req.amount > 0
    /\ req.emergencyReason \in {"mass_event", "liquidity_crisis", "regulatory_order"}
    /\ req.authorizedBy # Null

\* A handler that does not compare the amount with the fund.
InsufficientFunds_Unchecked(amount, fund) == FALSE

\* amount > emergencyFund.availableAmount
InsufficientFunds(amount, fund) == amount > fund.availableAmount

\* An update that records the activation and keeps the amount.
Debited_TimeOnly(fund, amount, t) == [fund EXCEPT !.lastActivation = <<t>>]

\* emergencyFund.availableAmount -= amount; emergencyFund.lastActivation = now
Debited(fund, amount, t) ==
    [fund EXCEPT !.availableAmount = @ - amount, !.lastActivation = <<t>>]

\* What POST /emergency answers and writes, given the statistics that
\* checkEmergencyConditions reads.
EmergencyOutcome(req, stats, ps, fund, t) ==
    LET same == [code |-> 0, error |-> Null, payouts |-> ps, emergencyFund |-> fund] IN
    IF ~EmergencyValid(req)
    THEN [same EXCEPT !.code = 400, !.error = "Validation failed"]
    ELSE IF ~checkEmergencyConditions(stats).emergencyActive
    THEN [same EXCEPT !.code = 422, !.error = "Emergency conditions not met"]
    ELSE IF InsufficientFunds(req.amount, fund)
    THEN [same EXCEPT !.code = 422, !.error = "Insufficient emergency funds"]
    ELSE [ code          |-> 201,
           error         |-> Null,
           payouts       |-> Append(ps, executePayout(
                                [claimId |-> req.claimId, claimAmount |-> req.amount],
                                req.amount, "EMERGENCY_OVERRIDE")),
           emergencyFund |-> Debited(fund, req.amount, t) ]

Emergency(req, stats) ==
    LET out == EmergencyOutcome(req, stats, payouts, emergencyFund, now) IN
    /\ Len(payouts) < MaxPayouts
    /\ payouts' = out.payouts
    /\ emergencyFund' = out.emergencyFund
    /\ UNCHANGED <<reviews, votes, now, validators, eligibility, escrowVars, claimVars, referralVars, inflight>>

\* The timer of payout i fires, two seconds after executePayout set it.
PayoutTimer(i) ==
    /\ i \in 1..Len(payouts)
    /\ payouts[i].status = "processing"
    /\ payouts' = [payouts EXCEPT ![i] = Settled(@)]
    /\ UNCHANGED <<reviews, votes, now, validators, eligibility, emergencyFund, escrowVars, claimVars, referralVars, inflight>>

-----------------------------------------------------------------------------
(***************************************************************************)
(* Escrow and the insurance pool: utils/blockchain.js, routes/escrow.js    *)
(* (kept as src/routes/pool.js lines 188-404) and routes/pool.js           *)
(***************************************************************************)

\* At most MaxContributions contributions are logged by each service.
MaxContributions == 3

\* Amounts are in hundredths of a coin and refunds in thousandths.  The
\* amounts used are whole multiples of 1/4, which parseFloat, the float sum
\* and toString keep exactly.
RideIds == {"ride_001", "ride_002"}

RiderWallet == MockJurors[1]

DriverWallet == MockJurors[2]

\* `new BlockchainService()`: the constructor's state.
BlockchainService ==
    [ escrows       |-> [r \in {} |-> Null],
      insurancePool |-> [ totalContributions |-> 0,
                          contributorCount   |-> 0,
                          contributions      |-> <<>> ] ]

\* createEscrow: the record stored under rideId.  signature and
\* refundAmount are the empty sequence until set.
createEscrow(service, rideId, riderWallet, driverWallet, amount) ==
    [service EXCEPT !.escrows =
        MapSet(@, rideId,
               [ rideId       |-> rideId,
                 riderWallet  |-> riderWallet,
                 driverWallet |-> driverWallet,
                 amount       |-> amount,
                 status       |-> "active",
                 milestones   |-> [ initiated       |-> TRUE,
                                    rideStarted     |-> FALSE,
                                    rideCompleted   |-> FALSE,
                                    paymentReleased |-> FALSE ],
                 signature    |-> <<>>,
                 refundAmount |-> <<>> ])]

\* releaseEscrow, on an escrow that exists and is active.
releaseEscrow(service, rideId, signature) ==
    [service EXCEPT !.escrows[rideId] =
        [@ EXCEPT !.status = "released",
                  !.milestones = [@ EXCEPT !.rideCompleted = TRUE,
                                           !.paymentReleased = TRUE],
                  !.signature = <<signature>>]]

\* calculateRefund, in thousandths: half the amount once the ride has
\* started, nine tenths of it before.
calculateRefund(escrow) ==
    IF escrow.milestones.rideStarted THEN escrow.amount * 5 ELSE escrow.amount * 9

\* A cancellation that also hands the rider's contributions back out of
\* the pool.
cancelEscrow_Refunding(service, rideId, signature) ==
    [service EXCEPT
        !.escrows[rideId] =
            [@ EXCEPT !.status = "cancelled",
                      !.signature = <<signature>>,
                      !.refundAmount = <<calculateRefund(service.escrows[rideId])>>],
        !.insurancePool = [ totalContributions |-> 0,
                            contributorCount   |-> 0,
                            contributions      |-> <<>> ]]

\* cancelEscrow, on an escrow that exists and is active.
cancelEscrow(service, rideId, signature) ==
    [service EXCEPT !.escrows[rideId] =
        [@ EXCEPT !.status = "cancelled",
                  !.signature = <<signature>>,
                  !.refundAmount = <<calculateRefund(service.escrows[rideId])>>]]

\* contributeToInsurance: the log entry pushed, the total and the count.
contributeToInsurance(service, contributor, amount) ==
    [service EXCEPT !.insurancePool =
        [ totalContributions |-> @.totalContributions + amount,
          contributorCount   |-> @.contributorCount + 1,
          contributions      |-> Append(@.contributions,
                                        [contributor |-> contributor, amount |-> amount]) ]]

getInsurancePoolStatus(service) ==
    [ totalBalance       |-> service.insurancePool.totalContributions,
      contributorCount   |-> service.insurancePool.contributorCount,
      totalContributions |-> Len(service.insurancePool.contributions) ]

\* A signature is the signer and the message signed; ethers.verifyMessage
\* recovers the signer when the message is the one signed and some other
\* address when it is not.
validateSignature(message, signature, expectedSigner) ==
    signature.message = message /\ signature.signer = expectedSigner

ReleaseMessage(rideId) == <<"Release escrow for ride", rideId>>

CancelMessage(rideId) == <<"Cancel escrow for ride", rideId>>

\* The bodies POST /initiate is sent: insuranceContribution is the empty
\* sequence when absent; "0" is a contribution of nothing.  The ride id
\* "r1" is shorter than the schema's three characters.
InitiateRequests ==
    [ rideId : RideIds \cup {"r1"}, riderWallet : {RiderWallet},
      driverWallet : {DriverWallet}, amount : {3575},
      insuranceContribution : {<<>>, <<0>>, <<50>>, <<200>>} ]

\* escrowInitiateSchema.validate(req.body) reports no error
InitiateValid(req) ==
    /\ req.rideId \in RideIds
    /\ ValidAddress(req.riderWallet)
    /\ ValidAddress(req.driverWallet)

\* What POST /api/escrow/initiate answers and the service it leaves.
InitiateOutcome(req, service) ==
    IF ~InitiateValid(req)
    THEN [code |-> 400, service |-> service]
    ELSE IF req.rideId \in DOMAIN service.escrows
    THEN [code |-> 409, service |-> service]
    ELSE LET created == createEscrow(service, req.rideId, req.riderWallet,
                                     req.driverWallet, req.amount)
         IN  [code |-> 201,
              service |-> IF req.insuranceContribution # <<>>
                          THEN contributeToInsurance(created, req.riderWallet,
                                                     req.insuranceContribution[1])
                          ELSE created]

Initiate(req) ==
    /\ Len(escrowService.insurancePool.contributions) < MaxContributions
    /\ escrowService' = InitiateOutcome(req, escrowService).service
    /\ UNCHANGED <<reviews, votes, now, validators, payoutVars, poolService, claimVars, referralVars, inflight>>

Signatures(rideId) ==
    [ signer : {RiderWallet, DriverWallet} \cup Outsiders,
      message : {ReleaseMessage(rideId), CancelMessage(rideId)} ]

\* The bodies POST /release and POST /cancel are sent.
ActionRequests ==
    UNION { [rideId : {rideId}, signature : Signatures(rideId)] :
            rideId \in RideIds \cup {"r1"} }

\* escrowActionSchema.validate(req.body) reports no error
ActionValid(req) == req.rideId \in RideIds

\* What POST /api/escrow/release answers and the service it leaves.  An
\* escrow that is not active makes releaseEscrow throw, which the error
\* handler answers with 500.
ReleaseOutcome(req, service) ==
    IF ~ActionValid(req)
    THEN [code |-> 400, service |-> service]
    ELSE IF req.rideId \notin DOMAIN service.escrows
    THEN [code |-> 404, service |-> service]
    ELSE IF ~validateSignature(ReleaseMessage(req.rideId), req.signature,
                               service.escrows[req.rideId].driverWallet)
    THEN [code |-> 401, service |-> service]
    ELSE IF service.escrows[req.rideId].status # "active"
    THEN [code |-> 500, service |-> service]
    ELSE [code |-> 200, service |-> releaseEscrow(service, req.rideId, req.signature)]

Release(req) ==
    /\ escrowService' = ReleaseOutcome(req, escrowService).service
    /\ UNCHANGED <<reviews, votes, now, validators, payoutVars, poolService, claimVars, referralVars, inflight>>

\* What POST /api/escrow/cancel answers and the service it leaves.
CancelOutcome(req, service) ==
    IF ~ActionValid(req)
    THEN [code |-> 400, service |-> service]
    ELSE IF req.rideId \notin DOMAIN service.escrows
    THEN [code |-> 404, service |-> service]
    ELSE IF /\ ~validateSignature(CancelMessage(req.rideId), req.signature,
                                  service.escrows[req.rideId].riderWallet)
            /\ ~validateSignature(CancelMessage(req.rideId), req.signature,
                                  service.escrows[req.rideId].driverWallet)
    THEN [code |-> 401, service |-> service]
    ELSE IF service.escrows[req.rideId].status # "active"
    THEN [code |-> 500, service |-> service]
    ELSE [code |-> 200, service |-> cancelEscrow(service, req.rideId, req.signature)]

Cancel(req) ==
    /\ escrowService' = CancelOutcome(req, escrowService).service
    /\ UNCHANGED <<reviews, votes, now, validators, payoutVars, poolService, claimVars, referralVars, inflight>>

\* The bodies POST /api/pool/contribute is sent; Null is a missing field.
ContributeRequests ==
    [ contributor : {DriverWallet}, amount : {0, 50, 200} ]
    \cup { [contributor |-> Null, amount |-> 50],
           [contributor |-> "0xZZ", amount |-> 50] }

\* validateAmount: the pattern, on the amounts used here, and more than 0.
validateAmount(amount) == amount > 0

\* What POST /api/pool/contribute answers and the service it leaves.
ContributeOutcome(req, service) ==
    IF req.contributor = Null
    THEN [code |-> 400, service |-> service]
    ELSE IF ~ValidAddress(req.contributor)
    THEN [code |-> 400, service |-> service]
    ELSE IF ~validateAmount(req.amount)
    THEN [code |-> 400, service |-> service]
    ELSE [code |-> 201,
          service |-> contributeToInsurance(service, req.contributor, req.amount)]

Contribute(req) ==
    /\ Len(poolService.insurancePool.contributions) < MaxContributions
    /\ poolService' = ContributeOutcome(req, poolService).service
    /\ UNCHANGED <<reviews, votes, now, validators, payoutVars, escrowService, claimVars, referralVars, inflight>>

\* What GET /api/pool/status answers: the status of the service that
\* routes/pool.js constructs for itself.
PoolStatus == getInsurancePoolStatus(poolService)

-----------------------------------------------------------------------------
(***************************************************************************)
(* Fraud scoring: services/advanced-fraud-detection.js                     *)
(* (src/unnamed/part_003) and calculateFraudScore of routes/claims.js      *)
(* (src/unnamed/part_002)                                                  *)
(***************************************************************************)

\* Factor subscores and confidences are in hundredths and weights in
\* percent, so a fraud score is in ten-thousandths.  An assessment is the
\* fraud score, the confidence and the recommended action; riskFactors,
\* redFlags, breakdown and metadata are derived for display.
weights ==
    [ documentIntegrity        |-> 20,
      claimFrequency           |-> 15,
      amountPatterns           |-> 12,
      timeOfIncident           |-> 8,
      reportingDelay           |-> 8,
      policeReportVerification |-> 10,
      medicalRecordConsistency |-> 8,
      weatherVerification      |-> 3,
      collusion                |-> 5,
      socialGraph              |-> 3,
      deviceFingerprint        |-> 2,
      locationConsistency      |-> 3,
      routeAnalysis            |-> 2,
      walletBehavior           |-> 1 ]

\* `weights[factor] || 0`
WeightOf(factor) == IF factor \in DOMAIN weights THEN weights[factor] ELSE 0

\* The reduce over Object.entries(fraudFactors).
RECURSIVE WeightedSum(_, _)
WeightedSum(fraudFactors, factors) ==
    IF factors = {} THEN 0
    ELSE LET factor == CHOOSE f \in factors : TRUE
         IN  fraudFactors[factor] * WeightOf(factor)
                 + WeightedSum(fraudFactors, factors \ {factor})

\* The number of defined factors in place of their share of the factors.
calculateConfidence_Count(fraudFactors) ==
    100 * Cardinality({f \in DOMAIN fraudFactors : fraudFactors[f] \in Int})

\* calculateConfidence: the share of the factors that are defined.
calculateConfidence(fraudFactors) ==
    (100 * Cardinality({f \in DOMAIN fraudFactors : fraudFactors[f] \in Int}))
        \div Cardinality(DOMAIN fraudFactors)

determineRecommendation(fraudScore, confidence) ==
    IF fraudScore >= 8000 /\ confidence >= 80 THEN "REJECT"
    ELSE IF fraudScore >= 6000 THEN "MANUAL_REVIEW"
    ELSE IF fraudScore >= 3000 THEN "COMMUNITY_REVIEW"
    ELSE "AUTO_APPROVE"

\* calculateAdvancedFraudScore, from the factors computed: the score
\* returned is clamped, the recommendation is made on the sum itself.
calculateAdvancedFraudScore(fraudFactors) ==
    LET fraudScore == WeightedSum(fraudFactors, DOMAIN fraudFactors)
        confidence == calculateConfidence(fraudFactors)
    IN  [ fraudScore     |-> Min(Max(fraudScore, 0), 10000),
          confidence     |-> confidence,
          recommendation |-> determineRecommendation(fraudScore, confidence) ]

\* analyzeDocumentIntegrity on `documents` documents that carry no metadata,
\* ocrData or type, as the documents POST /upload builds.
analyzeDocumentIntegrity(documents) ==
    IF documents = 0 THEN 80 ELSE Min((30 * documents) \div documents, 100)

\* analyzeAmountPatterns with at most one claim in the driver's history;
\* amounts are whole coins.
analyzeAmountPatterns(claimAmount) ==
    IF claimAmount % 1000 = 0 /\ claimAmount >= 5000 THEN 30
    ELSE IF claimAmount < 500 \/ claimAmount > 15000 THEN 40
    ELSE 10

\* analyzeIncidentTiming; `holiday` is the draw Math.random() > 0.9.
analyzeIncidentTiming(incidentDate, holiday) ==
    Min( (IF incidentDate.hour >= 23 \/ incidentDate.hour <= 4 THEN 20 ELSE 0)
         + (IF incidentDate.dayOfWeek \in {0, 6} THEN 10 ELSE 0)
         + (IF holiday THEN 15 ELSE 0),
         100 )

\* analyzeReportingDelay, on the whole hours from incident to submission.
analyzeReportingDelay(delayHours) ==
    IF delayHours < 1 THEN 30
    ELSE IF delayHours <= 24 THEN 10
    ELSE IF delayHours <= 168 THEN 40
    ELSE 80

\* detectCollusionPatterns; the three arguments are what its random
\* helpers return.
detectCollusionPatterns(sharedTransactions, sharedClaims, socialConnections) ==
    Min( (IF sharedTransactions > 0 THEN 40 ELSE 0)
         + (IF sharedClaims > 1 THEN 50 ELSE 0)
         + (IF socialConnections THEN 30 ELSE 0),
         100 )

\* analyzeSocialConnections; suspiciousConnections / connections > 0.3
analyzeSocialConnections(connections, suspiciousConnections) ==
    IF connections = 0 THEN 20
    ELSE IF 10 * suspiciousConnections > 3 * connections THEN 60
    ELSE 10

\* The random draws of one calculateAdvancedFraudScore call.
AdvancedDraws ==
    { [holiday |-> FALSE, sharedTransactions |-> 0, sharedClaims |-> 0,
       socialConnections |-> FALSE, connections |-> 5, suspiciousConnections |-> 0,
       patternAnomalies |-> FALSE],
      [holiday |-> FALSE, sharedTransactions |-> 0, sharedClaims |-> 0,
       socialConnections |-> FALSE, connections |-> 0, suspiciousConnections |-> 1,
       patternAnomalies |-> TRUE],
      [holiday |-> TRUE, sharedTransactions |-> 1, sharedClaims |-> 2,
       socialConnections |-> TRUE, connections |-> 2, suspiciousConnections |-> 2,
       patternAnomalies |-> TRUE] }

\* The factors calculateAdvancedFraudScore computes when POST /upload
\* calls it: the documents carry no type or category (no police report:
\* 0.6, no medical record: 0.3), the mock weather matches (0.05), the
\* claim has no metadata (0.2), location (0.1) or route (0.1) and the mock
\* history is empty (frequency 0, wallet 0.3).
UploadFactors(claim, documents, draws) ==
    [ documentIntegrity        |-> analyzeDocumentIntegrity(documents),
      claimFrequency           |-> 0,
      amountPatterns           |-> analyzeAmountPatterns(claim.claimAmount),
      timeOfIncident           |-> analyzeIncidentTiming(claim.incidentDate, draws.holiday),
      reportingDelay           |-> analyzeReportingDelay(claim.delayHours),
      policeReportVerification |-> 60,
      medicalRecordConsistency |-> 30,
      weatherVerification      |-> 5,
      collusion                |-> detectCollusionPatterns(draws.sharedTransactions,
                                       draws.sharedClaims, draws.socialConnections),
      socialGraph              |-> analyzeSocialConnections(draws.connections,
                                       draws.suspiciousConnections),
      deviceFingerprint        |-> 20,
      locationConsistency      |-> 10,
      routeAnalysis            |-> 10,
      walletBehavior           |-> 30,
      transactionPatterns      |-> IF draws.patternAnomalies THEN 40 ELSE 10 ]

\* The random draws of one calculateFraudScore call: the two flags and
\* Math.random() of the confidence, in hundredths.
SimpleDraws ==
    [ timingSuspicious : BOOLEAN, historicalPattern : BOOLEAN, random : {0, 20, 96} ]

\* calculateFraudScore of routes/claims.js, on `documents` documents.
calculateFraudScore(claim, documents, draws) ==
    LET fraudScore == (IF claim.claimAmount > 10000 THEN 3000 ELSE 0)
                      + (IF draws.timingSuspicious THEN 2000 ELSE 0)
                      + (IF documents < 2 THEN 2000 ELSE 0)
                      + (IF draws.historicalPattern THEN 3000 ELSE 0)
    IN  [ fraudScore     |-> Min(fraudScore, 10000),
          confidence     |-> 75 + (draws.random * 25) \div 100,
          recommendation |-> IF fraudScore < 3000 THEN "auto_approve"
                             ELSE IF fraudScore < 7000 THEN "community_review"
                             ELSE "intensive_review" ]

-----------------------------------------------------------------------------
(***************************************************************************)
(* Claims: routes/claims.js (src/unnamed/part_002)                         *)
(***************************************************************************)

\* At most MaxClaims claims and MaxReviews reviews are created and at most
\* MaxDocuments documents are uploaded to a claim.  A claim's id is its
\* place in `claims` and a review's id its place in `claimReviews`: both
\* are fresh uuids in the code.
MaxClaims == 1

MaxReviews == 2

MaxDocuments == 2

\* The bodies POST /create is sent: incidentDate is the hour and the day of
\* the week it falls on, delayHours the hours from it to the submission.
\* The last one is dated in the future, which the schema rejects.
CreateRequests ==
    { [claimAmount |-> 15500, incidentDate |-> [hour |-> 2, dayOfWeek |-> 6],
       delayHours |-> 200],
      [claimAmount |-> 800, incidentDate |-> [hour |-> 14, dayOfWeek |-> 3],
       delayHours |-> 12],
      [claimAmount |-> 1000, incidentDate |-> [hour |-> 14, dayOfWeek |-> 3],
       delayHours |-> 12],
      [claimAmount |-> 800, incidentDate |-> [hour |-> 14, dayOfWeek |-> 3],
       delayHours |-> -1] }

\* claimCreateSchema.validate(req.body) reports no error
CreateValid(req) == req.claimAmount >= 0 /\ req.delayHours >= 0

\* What POST /create answers and the claims it leaves.  aiAssessment and
\* communityReview are the empty sequence for null.
CreateOutcome(req, cs) ==
    IF ~CreateValid(req)
    THEN [code |-> 400, claims |-> cs]
    ELSE [code |-> 201,
          claims |-> Append(cs, [ claimAmount     |-> req.claimAmount,
                                  incidentDate    |-> req.incidentDate,
                                  delayHours      |-> req.delayHours,
                                  status          |-> "submitted",
                                  documents       |-> 0,
                                  aiAssessment    |-> <<>>,
                                  communityReview |-> <<>> ])]

Create(req) ==
    /\ Len(claims) < MaxClaims
    /\ claims' = CreateOutcome(req, claims).claims
    /\ UNCHANGED <<reviews, votes, now, validators, payoutVars, escrowVars,
                   claimReviews, assessment, referralVars, inflight>>

\* The uploads sent: a claim id, one past the last for an unknown claim,
\* the number of files and the draws of the assessment.
UploadRequests(cs) ==
    [ claimId : 1..(Len(cs) + 1), files : 0..2, draws : AdvancedDraws ]

\* What POST /upload/:claimId answers, and the claims and reviews it
\* leaves.
UploadOutcome(req, cs, rs) ==
    IF req.claimId \notin 1..Len(cs)
    THEN [code |-> 404, claims |-> cs, reviews |-> rs]
    ELSE IF req.files = 0
    THEN [code |-> 400, claims |-> cs, reviews |-> rs]
    ELSE LET claim        == cs[req.claimId]
             aiAssessment == calculateAdvancedFraudScore(
                                 UploadFactors(claim, req.files, req.draws))
             assessed     == [claim EXCEPT !.documents = @ + req.files,
                                           !.aiAssessment = <<aiAssessment>>,
                                           !.status = "processing"]
         IN  IF aiAssessment.recommendation \in {"COMMUNITY_REVIEW", "MANUAL_REVIEW"}
             THEN [code |-> 200,
                   claims |-> [cs EXCEPT ![req.claimId] =
                                  [assessed EXCEPT !.communityReview = <<Len(rs) + 1>>]],
                   reviews |-> Append(rs, [ claimId      |-> req.claimId,
                                            aiAssessment |-> aiAssessment,
                                            jurors       |-> <<>>,
                                            votes        |-> <<>>,
                                            status       |-> "pending_jurors",
                                            consensusThreshold |-> 66 ])]
             ELSE [code |-> 200,
                   claims |-> [cs EXCEPT ![req.claimId] = assessed],
                   reviews |-> rs]

Upload(req) ==
    /\ Len(claimReviews) < MaxReviews
    /\ req.claimId \in 1..Len(claims) => claims[req.claimId].documents + req.files <= MaxDocuments
    /\ claims' = UploadOutcome(req, claims, claimReviews).claims
    /\ claimReviews' = UploadOutcome(req, claims, claimReviews).reviews
    /\ UNCHANGED <<reviews, votes, now, validators, payoutVars, escrowVars, assessment, referralVars, inflight>>

\* The bodies POST /process is sent; claimId 0 is a missing claimId.
ProcessRequests(cs) ==
    [ claimId : 0..(Len(cs) + 1), draws : SimpleDraws ]

\* What POST /process answers and the claims it leaves.
ProcessOutcome(req, cs) ==
    IF req.claimId = 0
    THEN [code |-> 400, claims |-> cs]
    ELSE IF req.claimId \notin 1..Len(cs)
    THEN [code |-> 404, claims |-> cs]
    ELSE LET claim        == cs[req.claimId]
             aiAssessment == calculateFraudScore(claim, claim.documents, req.draws)
         IN  [code |-> 200,
              claims |-> [cs EXCEPT ![req.claimId] =
                  [claim EXCEPT
                      !.aiAssessment = <<aiAssessment>>,
                      !.status = IF /\ aiAssessment.recommendation = "auto_approve"
                                    /\ claim.claimAmount < 1000
                                 THEN "approved" ELSE "awaiting_review"]]]

Process(req) ==
    /\ claims' = ProcessOutcome(req, claims).claims
    /\ UNCHANGED <<reviews, votes, now, validators, payoutVars, escrowVars,
                   claimReviews, assessment, referralVars, inflight>>

\* The claims whose factors are scored on their own.
SampleClaims == {req \in CreateRequests : CreateValid(req)}

\* The factors that weigh 5% and more, each at the least and the most its
\* function returns (the documents' integrity also at what an upload
\* gives), with the lighter ones at what an upload gives, all at their
\* least, or all at their most; and the factors of every upload.
FactorCombinations ==
    { [f \in DOMAIN heavy \cup DOMAIN light |->
          IF f \in DOMAIN heavy THEN heavy[f] ELSE light[f]] :
      heavy \in [ documentIntegrity        : {0, 30, 100},
                  claimFrequency           : {0, 80},
                  amountPatterns           : {10, 50},
                  timeOfIncident           : {0, 45},
                  reportingDelay           : {10, 80},
                  policeReportVerification : {0, 70},
                  medicalRecordConsistency : {0, 50},
                  collusion                : {0, 100} ],
      light \in { [ weatherVerification |-> 5, socialGraph |-> 10,
                    deviceFingerprint |-> 20, locationConsistency |-> 10,
                    routeAnalysis |-> 10, walletBehavior |-> 30,
                    transactionPatterns |-> 10 ],
                  [ weatherVerification |-> 5, socialGraph |-> 10,
                    deviceFingerprint |-> 10, locationConsistency |-> 5,
                    routeAnalysis |-> 0, walletBehavior |-> 10,
                    transactionPatterns |-> 10 ],
                  [ weatherVerification |-> 30, socialGraph |-> 60,
                    deviceFingerprint |-> 70, locationConsistency |-> 40,
                    routeAnalysis |-> 70, walletBehavior |-> 30,
                    transactionPatterns |-> 40 ] } }
    \cup
    { UploadFactors(claim, files, draws) :
      claim \in SampleClaims, files \in 1..2, draws \in AdvancedDraws }

\* No assessment has been made.
NoAssessment == <<>>

\* One call of calculateAdvancedFraudScore.
AssessAdvanced(fraudFactors) ==
    /\ assessment' = <<calculateAdvancedFraudScore(fraudFactors)>>
    /\ UNCHANGED <<reviews, votes, now, validators, payoutVars, escrowVars,
                   claims, claimReviews, referralVars, inflight>>

\* One call of calculateFraudScore.
AssessSimple(claim, documents, draws) ==
    /\ assessment' = <<calculateFraudScore(claim, documents, draws)>>
    /\ UNCHANGED <<reviews, votes, now, validators, payoutVars, escrowVars,
                   claims, claimReviews, referralVars, inflight>>

-----------------------------------------------------------------------------
(***************************************************************************)
(* Referrals: routes/referral.js.  A referral's id is its position in      *)
(* referralDatabase (uuidv4 gives every referral a fresh id); reward       *)
(* amounts are in hundredths; timestamps and transaction hashes are left   *)
(* out.                                                                    *)
(***************************************************************************)

\* At most MaxReferrals referrals are tracked.
MaxReferrals == 2

\* The bodies POST /track is sent: rewardAmount is the empty sequence when
\* absent; "ab" is shorter than the schema's three characters and "admin"
\* is no user type.
TrackRequests ==
    [ referrerId : {"user_a", "user_b"}, newUserId : {"new_1", "new_2"},
      userType : {"rider", "driver"}, rewardAmount : {<<>>, <<1500>>} ]
    \cup
    { [referrerId |-> "ab", newUserId |-> "new_1", userType |-> "rider", rewardAmount |-> <<>>],
      [referrerId |-> "user_a", newUserId |-> "new_1", userType |-> "admin", rewardAmount |-> <<>>] }

\* referralTrackSchema.validate(req.body) reports no error
TrackValid(req) ==
    /\ req.referrerId \in {"user_a", "user_b"}
    /\ req.userType \in {"rider", "driver"}

\* `rewardAmount || defaultReward`, the default '25.0' for a driver and
\* '10.0' for a rider.
actualReward(req) ==
    IF req.rewardAmount # <<>> THEN req.rewardAmount[1]
    ELSE IF req.userType = "driver" THEN 2500 ELSE 1000

\* What POST /track answers and the referrals it leaves.
TrackOutcome(req, db) ==
    IF ~TrackValid(req)
    THEN [code |-> 400, referralDatabase |-> db]
    ELSE IF \E i \in 1..Len(db) : db[i].newUserId = req.newUserId
    THEN [code |-> 409, referralDatabase |-> db]
    ELSE [code |-> 201,
          referralDatabase |-> Append(db,
              [ referralId     |-> Len(db) + 1,
                referrerId     |-> req.referrerId,
                newUserId      |-> req.newUserId,
                userType       |-> req.userType,
                rewardAmount   |-> actualReward(req),
                status         |-> "pending",
                eligibilityMet |-> FALSE,
                rewardPaid     |-> FALSE ])]

Track(req) ==
    /\ Len(referralDatabase) < MaxReferrals
    /\ referralDatabase' = TrackOutcome(req, referralDatabase).referralDatabase
    /\ UNCHANGED <<reviews, votes, now, validators, payoutVars, escrowVars, claimVars,
                   rewardHistory, inflight>>

\* The bodies POST /complete is sent: each id a referral can have, one that
\* no referral has, and a body without referralId (0).
CompleteRequests == [referralId : 0..(MaxReferrals + 1)]

\* A handler that does not look at the status.
AlreadyCompleted_Unchecked(referral) == FALSE

\* `if (referral.status === 'completed')`
AlreadyCompleted(referral) == referral.status = "completed"

\* What POST /complete answers, and the referrals and rewards it leaves.
CompleteOutcome(req, db, history) ==
    LET same == [code |-> 0, referralDatabase |-> db, rewardHistory |-> history] IN
    IF req.referralId = 0
    THEN [same EXCEPT !.code = 400]
    ELSE IF req.referralId \notin 1..Len(db)
    THEN [same EXCEPT !.code = 404]
    ELSE LET referral == db[req.referralId] IN
    IF AlreadyCompleted(referral)
    THEN [same EXCEPT !.code = 409]
    ELSE [ code |-> 200,
           referralDatabase |-> [db EXCEPT ![req.referralId] =
               [@ EXCEPT !.status = "completed",
                         !.eligibilityMet = TRUE,
                         !.rewardPaid = TRUE]],
           rewardHistory |-> Append(history,
               [ referralId   |-> referral.referralId,
                 referrerId   |-> referral.referrerId,
                 newUserId    |-> referral.newUserId,
                 rewardAmount |-> referral.rewardAmount ]) ]

\* rewardHistory holds at most a record more than there are referrals.
Complete(req) ==
    LET out == CompleteOutcome(req, referralDatabase, rewardHistory) IN
    /\ Len(rewardHistory) <= MaxReferrals
    /\ referralDatabase' = out.referralDatabase
    /\ rewardHistory' = out.rewardHistory
    /\ UNCHANGED <<reviews, votes, now, validators, payoutVars, escrowVars, claimVars, inflight>>

\* GET /user/:userId: totalRewardsEarned, the sum over the user's records
\* in rewardHistory.
RECURSIVE totalRewards(_, _)
totalRewards(history, userId) ==
    IF history = <<>> THEN 0
    ELSE (IF Head(history).referrerId = userId THEN Head(history).rewardAmount ELSE 0)
         + totalRewards(Tail(history), userId)

-----------------------------------------------------------------------------
(***************************************************************************)
(* The escrow handlers cut at their awaits.  Each call of the mock         *)
(* BlockchainService runs its body when it is called and returns a         *)
(* settled promise; the handler resumes in a later microtask.  Handlers    *)
(* that Node starts in one turn of its tick queue (requests that arrive    *)
(* together on a connection) all run to their first await before any      *)
(* continuation runs; the continuations then run in the order they were    *)
(* queued, until none is left, before another handler starts.  A request   *)
(* that fails validation is answered before any await and is never in      *)
(* flight.                                                                 *)
(***************************************************************************)

\* At most MaxInFlight handlers are suspended at a time.
MaxInFlight == 2

\* The requests that reach the first await, for one ride.
InFlightRequests(kind) ==
    IF kind = "initiate"
    THEN {req \in InitiateRequests : /\ req.rideId = "ride_001"
                                    /\ req.insuranceContribution \in {<<>>, <<50>>}}
    ELSE {req \in ActionRequests : /\ req.rideId = "ride_001"
                                  /\ req.signature.signer \in {RiderWallet, DriverWallet}}

\* A handler from its start to `await blockchainService.getEscrow(rideId)`:
\* getEscrow reads the Map when it is called.
Handler(kind, req, service) ==
    [ kind  |-> kind,
      req   |-> req,
      pc    |-> "getEscrow",
      found |-> req.rideId \in DOMAIN service.escrows,
      valid |-> FALSE,
      threw |-> FALSE ]

\* No continuation has run yet: every handler in flight is at its first
\* await.
SameTurn(handlers) == \A i \in 1..Len(handlers) : handlers[i].pc = "getEscrow"

\* A service whose releaseEscrow and cancelEscrow do not look at the status.
NotActive_Unchecked(escrow) == FALSE

\* `if (escrow.status !== 'active') throw new Error('Escrow is not active')`
NotActive(escrow) == escrow.status # "active"

\* POST /initiate from the await it is suspended at to the next one, or to
\* its answer (`code`, 0 while it has not answered).
ResumeInitiate(h, service) ==
    IF h.pc = "getEscrow"
    THEN IF h.found
         THEN [handler |-> <<>>, service |-> service, code |-> 409]
         ELSE [handler |-> <<[h EXCEPT !.pc = "createEscrow"]>>,
               service |-> createEscrow(service, h.req.rideId, h.req.riderWallet,
                                        h.req.driverWallet, h.req.amount),
               code    |-> 0]
    ELSE IF h.pc = "createEscrow" /\ h.req.insuranceContribution # <<>>
    THEN [handler |-> <<[h EXCEPT !.pc = "contributeToInsurance"]>>,
          service |-> contributeToInsurance(service, h.req.riderWallet,
                                            h.req.insuranceContribution[1]),
          code    |-> 0]
    ELSE [handler |-> <<>>, service |-> service, code |-> 201]

\* POST /release, likewise.  A releaseEscrow that throws leaves the service
\* as it is and the handler answers through the error handler.
ResumeRelease(h, service) ==
    LET rideId == h.req.rideId IN
    IF h.pc = "getEscrow"
    THEN IF ~h.found
         THEN [handler |-> <<>>, service |-> service, code |-> 404]
         ELSE [handler |-> <<[h EXCEPT !.pc = "validateSignature",
                                       !.valid = validateSignature(
                                           ReleaseMessage(rideId), h.req.signature,
                                           service.escrows[rideId].driverWallet)]>>,
               service |-> service,
               code    |-> 0]
    ELSE IF h.pc = "validateSignature"
    THEN IF ~h.valid
         THEN [handler |-> <<>>, service |-> service, code |-> 401]
         ELSE IF NotActive(service.escrows[rideId])
         THEN [handler |-> <<[h EXCEPT !.pc = "releaseEscrow", !.threw = TRUE]>>,
               service |-> service,
               code    |-> 0]
         ELSE [handler |-> <<[h EXCEPT !.pc = "releaseEscrow"]>>,
               service |-> releaseEscrow(service, rideId, h.req.signature),
               code    |-> 0]
    ELSE [handler |-> <<>>, service |-> service,
          code |-> IF h.threw THEN 500 ELSE 200]

\* POST /cancel, likewise, with its two validateSignature calls.
ResumeCancel(h, service) ==
    LET rideId == h.req.rideId IN
    IF h.pc = "getEscrow"
    THEN IF ~h.found
         THEN [handler |-> <<>>, service |-> service, code |-> 404]
         ELSE [handler |-> <<[h EXCEPT !.pc = "validateSignature",
                                       !.valid = validateSignature(
                                           CancelMessage(rideId), h.req.signature,
                                           service.escrows[rideId].riderWallet)]>>,
               service |-> service,
               code    |-> 0]
    ELSE IF h.pc = "validateSignature"
    THEN [handler |-> <<[h EXCEPT !.pc = "validateSignature2",
                                  !.valid = @ \/ validateSignature(
                                      CancelMessage(rideId), h.req.signature,
                                      service.escrows[rideId].driverWallet)]>>,
          service |-> service,
          code    |-> 0]
    ELSE IF h.pc = "validateSignature2"
    THEN IF ~h.valid
         THEN [handler |-> <<>>, service |-> service, code |-> 401]
         ELSE IF NotActive(service.escrows[rideId])
         THEN [handler |-> <<[h EXCEPT !.pc = "cancelEscrow", !.threw = TRUE]>>,
               service |-> service,
               code    |-> 0]
         ELSE [handler |-> <<[h EXCEPT !.pc = "cancelEscrow"]>>,
               service |-> cancelEscrow(service, rideId, h.req.signature),
               code    |-> 0]
    ELSE [handler |-> <<>>, service |-> service,
          code |-> IF h.threw THEN 500 ELSE 200]

Resumed(h, service) ==
    CASE h.kind = "initiate" -> ResumeInitiate(h, service)
      [] h.kind = "release"  -> ResumeRelease(h, service)
      [] h.kind = "cancel"   -> ResumeCancel(h, service)

\* A request arrives and its handler runs to its first await.
Begin(kind, req) ==
    /\ Len(inflight) < MaxInFlight
    /\ SameTurn(inflight)
    /\ Len(escrowService.insurancePool.contributions) + Len(inflight) < MaxContributions
    /\ inflight' = Append(inflight, Handler(kind, req, escrowService))
    /\ UNCHANGED <<reviews, votes, now, validators, payoutVars, escrowVars, claimVars,
                   referralVars>>

\* The continuation at the head of the microtask queue runs to its next await
\* or to its answer.
Resume ==
    /\ inflight # <<>>
    /\ LET out == Resumed(Head(inflight), escrowService)
       IN  /\ inflight' = Tail(inflight) \o out.handler
           /\ escrowService' = out.service
    /\ UNCHANGED <<reviews, votes, now, validators, payoutVars, poolService, claimVars,
                   referralVars>>

-----------------------------------------------------------------------------
Init ==
    /\ reviews = [id \in {MockReviewId} |-> mockReview]
    /\ votes = [w \in Wallets |-> <<>>]
    /\ now = 0
    /\ validators = [w \in {} |-> Null]
    /\ eligibility = NotEvaluated
    /\ payouts = <<>>
    /\ emergencyFund = emergencyFundAtLoad
    /\ escrowService = BlockchainService
    /\ poolService = BlockchainService
    /\ claims = <<>>
    /\ claimReviews = <<>>
    /\ assessment = NoAssessment
    /\ referralDatabase = <<>>
    /\ rewardHistory = <<>>
    /\ inflight = <<>>

ReviewNext ==
    \/ \E req \in VoteRequests : SubmitVote(req)
    \/ Tick

ReviewSpec == Init /\ [][ReviewNext]_vars

ValidatorNext ==
    \/ \E req \in RegisterRequests : Register(req)
    \/ \E req \in StakeRequests : Stake(req)
    \/ \E req \in SlashRequests : Slash(req)
    \/ \E req \in VoteResultRequests : VoteResult(req)

ValidatorSpec == Init /\ [][ValidatorNext]_vars

\* The state after each wallet of the mock panel has registered as a validator
\* with the minimum stake (five POST /register requests) and before any vote.
JuryInit ==
    /\ reviews = [id \in {MockReviewId} |-> mockReview]
    /\ votes = [w \in Wallets |-> <<>>]
    /\ now = 0
    /\ validators = [w \in {MockJurors[i] : i \in 1..Len(MockJurors)} |->
                        NewValidator(w, stakingConfig.minimumStake)]
    /\ eligibility = NotEvaluated
    /\ payouts = <<>>
    /\ emergencyFund = emergencyFundAtLoad
    /\ escrowService = BlockchainService
    /\ poolService = BlockchainService
    /\ claims = <<>>
    /\ claimReviews = <<>>
    /\ assessment = NoAssessment
    /\ referralDatabase = <<>>
    /\ rewardHistory = <<>>
    /\ inflight = <<>>

JurySpec == JuryInit /\ [][ReviewNext]_vars

\* The validator ledger with the clock running, without stake changes.
CoolingNext ==
    \/ \E req \in RegisterRequests : Register(req)
    \/ \E req \in SlashRequests : Slash(req)
    \/ \E req \in VoteResultRequests : VoteResult(req)
    \/ \E d \in {1, CoolingOff - 1} : Elapse(d)

CoolingSpec == Init /\ [][CoolingNext]_vars

TierNext ==
    \E claimAmount \in ClaimAmounts, vr \in ValidationResults :
        Evaluate(claimAmount, vr)

TierSpec == Init /\ [][TierNext]_vars

PayoutNext ==
    \/ \E req \in ExecuteRequests : Execute(req)
    \/ \E req \in EmergencyRequests, stats \in PoolStatsSamples : Emergency(req, stats)
    \/ \E i \in 1..MaxPayouts : PayoutTimer(i)
    \/ Tick

PayoutSpec == Init /\ [][PayoutNext]_vars

\* Node fires a timer that is due: the callback of every payout's timer runs.
FairPayoutSpec == PayoutSpec /\ \A i \in 1..MaxPayouts : WF_vars(PayoutTimer(i))

\* The escrow routes and the pool routes, each on its own service.
EscrowNext ==
    \/ \E req \in InitiateRequests : Initiate(req)
    \/ \E req \in ActionRequests : Release(req)
    \/ \E req \in ActionRequests : Cancel(req)
    \/ \E req \in ContributeRequests : Contribute(req)

EscrowSpec == Init /\ [][EscrowNext]_vars

\* The referral routes.
ReferralNext ==
    \/ \E req \in TrackRequests : Track(req)
    \/ \E req \in CompleteRequests : Complete(req)

ReferralSpec == Init /\ [][ReferralNext]_vars

\* The escrow routes with their handlers cut at the awaits.
HandlerNext ==
    \/ \E req \in InFlightRequests("initiate") : Begin("initiate", req)
    \/ \E req \in InFlightRequests("release") : Begin("release", req)
    \/ \E req \in InFlightRequests("cancel") : Begin("cancel", req)
    \/ Resume

HandlerSpec == Init /\ [][HandlerNext]_vars

\* The claims routes.
ClaimsNext ==
    \/ \E req \in CreateRequests : Create(req)
    \/ \E req \in UploadRequests(claims) : Upload(req)
    \/ \E req \in ProcessRequests(claims) : Process(req)

ClaimsSpec == Init /\ [][ClaimsNext]_vars

\* The two scoring functions on their own, applied to the factors and
\* draws they can be given.
ScoringNext ==
    \/ \E fraudFactors \in FactorCombinations : AssessAdvanced(fraudFactors)
    \/ \E claim \in SampleClaims, documents \in 0..MaxDocuments, draws \in SimpleDraws :
           AssessSimple(claim, documents, draws)

ScoringSpec == Init /\ [][ScoringNext]_vars

\* The clock does not stop.  Nothing else is scheduled by review.js: it sets
\* no timer, and whether a juror ever votes is up to the juror.
FairReviewSpec == ReviewSpec /\ WF_vars(Tick)

-----------------------------------------------------------------------------
(***************************************************************************)
(* Properties of the review session                                        *)
(***************************************************************************)

\* The well-formed submissions to a review that exists.
WellFormedVotes ==
    {req \in VoteRequests :
        /\ req.juror # Null /\ req.reasoning \notin {Null, ""}
        /\ req.decision \in validDecisions
        /\ req.reviewId \in DOMAIN reviews}

Answer(req) == VoteOutcome(req, reviews, votes, now)

Rejected(req, code) ==
    /\ Answer(req).code = code
    /\ Answer(req).reviews = reviews
    /\ Answer(req).votes = votes

Panel(review) == {review.jurors[i] : i \in 1..Len(review.jurors)}

VotesBy(review, juror) == {i \in 1..Len(review.votes) : review.votes[i].juror = juror}

VotesFor(review, d) == {i \in 1..Len(review.votes) : review.votes[i].decision = d}

\* The number of votes for the most-voted decision.
LeadingVotes(review) ==
    CHOOSE n \in 0..Len(review.votes) :
        /\ \A d \in validDecisions : Cardinality(VotesFor(review, d)) <= n
        /\ \E d \in validDecisions : Cardinality(VotesFor(review, d)) = n

\* leadingVotes / votesRecorded >= 0.66
ShareReached(review) ==
    /\ Len(review.votes) > 0
    /\ 100 * LeadingVotes(review) >= 66 * Len(review.votes)

TerminalStatus == {"completed", "no_consensus"}

\* C1: in every reachable state each juror has at most one vote recorded in
\* a review, and a well-formed submission by a juror who already has a vote
\* there is answered 409 Conflict and leaves the review and the vote
\* histories as they were; requests are handled one at a time, so this
\* covers two submissions of one juror in flight together.
C1_OneVotePerJuror ==
    /\ \A id \in DOMAIN reviews : \A j \in Wallets :
           Cardinality(VotesBy(reviews[id], j)) <= 1
    /\ \A req \in WellFormedVotes :
           VotesBy(reviews[req.reviewId], req.juror) # {} => Rejected(req, 409)

\* A juror has voted "approve" while the review is open and before the
\* deadline, and the same juror's "deny" is answered Conflict.
C1_Witness ==
    \E req \in WellFormedVotes :
        LET review == reviews[req.reviewId] IN
        /\ review.status = "in_review" /\ now <= review.deadline
        /\ req.decision = "deny"
        /\ \E i \in VotesBy(review, req.juror) : review.votes[i].decision = "approve"
        /\ Answer(req).code = 409

\* C2: once a review has left "in_review", no step changes its status or
\* its final decision.
C2_FinalizedOnce ==
    [][\A id \in DOMAIN reviews :
          reviews[id].status # "in_review" =>
              /\ reviews'[id].status = reviews[id].status
              /\ reviews'[id].finalDecision = reviews[id].finalDecision]_vars

\* A finalized review whose deadline has since passed.
C2_Witness ==
    \E id \in DOMAIN reviews :
        /\ reviews[id].status \in TerminalStatus
        /\ now > reviews[id].deadline

\* C3 (as claimed): every review eventually reaches a terminal status.
C3_EventuallyFinalized ==
    \A id \in {MockReviewId} : <>(reviews[id].status \in TerminalStatus)

C5_FinalizeOutcome ==
    \A id \in DOMAIN reviews :
        LET review == reviews[id] IN
        /\ review.status \in TerminalStatus \cup {"in_review"}
        /\ review.status = "completed" =>
              /\ ShareReached(review)
              /\ review.finalDecision \in validDecisions
              /\ Cardinality(VotesFor(review, review.finalDecision)) = LeadingVotes(review)
        /\ review.status = "no_consensus" =>
              ~ShareReached(review) /\ review.finalDecision = Null
        /\ review.status = "in_review" => review.finalDecision = Null
        /\ review.status \in TerminalStatus => ShareReached(review) = (review.status = "completed")

\* A review finalized without consensus: three votes against two.
C5_Witness ==
    \E id \in DOMAIN reviews :
        /\ reviews[id].status = "no_consensus"
        /\ Len(reviews[id].votes) = 5
        /\ LeadingVotes(reviews[id]) = 3

\* C8 (as claimed): a submission by a wallet outside the panel is answered
\* Forbidden, one by a panel member after the deadline is answered Gone, and
\* neither changes anything.
C8_ForbiddenAndGone ==
    \A req \in WellFormedVotes :
        LET review == reviews[req.reviewId] IN
        /\ req.juror \notin Panel(review) => Rejected(req, 403)
        /\ (req.juror \in Panel(review) /\ now > review.deadline) => Rejected(req, 410)

\* C8 (amended): as claimed, but Gone is the answer after the deadline only to
\* a panel member who has not voted; one who has voted is answered Conflict.
\* None of the three changes the review or the vote histories.
C8_ForbiddenConflictGone ==
    \A req \in WellFormedVotes :
        LET review == reviews[req.reviewId]
            voted  == VotesBy(review, req.juror) # {}
        IN  /\ req.juror \notin Panel(review) => Rejected(req, 403)
            /\ (req.juror \in Panel(review) /\ ~voted /\ now > review.deadline)
                  => Rejected(req, 410)
            /\ (req.juror \in Panel(review) /\ voted /\ now > review.deadline)
                  => Rejected(req, 409)

\* After the deadline, with some votes recorded: one panel member is answered
\* Gone, another Conflict, the outsider Forbidden.
C8_Witness ==
    \E a, b, c \in WellFormedVotes :
        /\ now > reviews[a.reviewId].deadline
        /\ Answer(a).code = 410
        /\ Answer(b).code = 409
        /\ Answer(c).code = 403

\* C35 (as claimed): every vote recorded in a review has a decision among
\* approve, deny and need_info, a non-empty reasoning and a confidence in
\* [0, 1]; a submission that violates any of these leaves the state as it was.
C35_RecordedVotesWellFormed ==
    /\ [](\A id \in DOMAIN reviews : \A i \in 1..Len(reviews[id].votes) :
             LET vote == reviews[id].votes[i]
             IN  /\ vote.decision \in {"approve", "deny", "need_info"}
                 /\ vote.reasoning \notin {Null, ""}
                 /\ vote.confidence \in 0..100)
    /\ [][\A req \in VoteRequests :
             (/\ SubmitVote(req)
              /\ \/ req.decision \notin {"approve", "deny", "need_info"}
                 \/ req.reasoning \in {Null, ""}
                 \/ req.confidence # <<>> /\ req.confidence[1] \notin 0..100)
             => UNCHANGED vars]_vars

\* C28 (as claimed): consensus is not reported as reached unless at least
\* 66% of the assigned jurors have voted.
C28_QuorumBeforeConsensus ==
    \A id \in DOMAIN reviews :
        checkConsensus(reviews[id]).reached =>
            100 * Len(reviews[id].votes) >= 66 * Len(reviews[id].jurors)

-----------------------------------------------------------------------------
(***************************************************************************)
(* Properties of the validator ledger                                      *)
(***************************************************************************)

Voters(review) == {review.votes[i].juror : i \in 1..Len(review.votes)}

DecisionOf(review, juror) ==
    review.votes[CHOOSE i \in 1..Len(review.votes) : review.votes[i].juror = juror].decision

\* C6 (as claimed): once a review is completed, every juror who voted in it
\* has had exactly one reputation update since registering: one vote counted,
\* and the reputation of 500 raised by 5% if the vote is the final decision
\* and lowered by 10% if it is not.
C6_VotersUpdatedOnce ==
    \A id \in DOMAIN reviews :
        reviews[id].status = "completed" =>
            \A j \in Voters(reviews[id]) \cap DOMAIN validators :
                /\ validators[j].totalVotes = 1
                /\ validators[j].reputation =
                      IF DecisionOf(reviews[id], j) = reviews[id].finalDecision
                      THEN 525 * RepScale
                      ELSE 450 * RepScale

\* C7 (as claimed): a vote-result report that carries consensusReached = false
\* leaves the validators as they were.
C7_NoUpdateWithoutConsensus ==
    \A req \in VoteResultRequests :
        req.consensusReached = FALSE =>
            VoteResultOutcome(req, validators).validators = validators

InRange(validator) ==
    /\ 0 <= validator.reputation
    /\ validator.reputation <= 1000 * RepScale
    /\ validator.stakedAmount >= 0

\* The ends of the reputation range.  The program reaches them only by runs
\* longer than the bounds (fifteen rewards from 500, ten slashings), so the
\* three updates are also tried on each reachable record with its reputation
\* at either end.
ReputationEnds == {0, 1000 * RepScale}

\* C9: every validator has reputation in [0, 1000] and stake >= 0, each of
\* reward, penalty and slashing keeps a reputation at either end of the range
\* within it, and a decrease larger than the stake is answered 422 and
\* changes nothing.
C9_ReputationAndStakeInRange ==
    /\ \A w \in DOMAIN validators : InRange(validators[w])
    /\ \A w \in DOMAIN validators : \A r \in ReputationEnds :
          LET v == [validators[w] EXCEPT !.reputation = r] IN
          /\ InRange(updateValidatorReputation(v, TRUE))
          /\ InRange(updateValidatorReputation(v, FALSE))
          /\ InRange(executeSlashing(v, "collusion", stakingConfig.slashPercentage, now).validator)
    /\ \A req \in StakeRequests :
          (/\ req.walletAddress \in DOMAIN validators
           /\ req.action = "decrease"
           /\ req.amount * StakeScale > validators[req.walletAddress].stakedAmount)
          => /\ StakeOutcome(req, validators).code = 422
             /\ StakeOutcome(req, validators).validators = validators

\* A validator that has been slashed and has had a vote result, whose stake is
\* below 1500 tokens: the decrease by 1500 is answered 422.
C9_Witness ==
    \E req \in StakeRequests :
        /\ req.walletAddress \in DOMAIN validators
        /\ req.action = "decrease"
        /\ validators[req.walletAddress].totalVotes > 0
        /\ Len(validators[req.walletAddress].slashingHistory) > 0
        /\ validators[req.walletAddress].stakedAmount > 0
        /\ StakeOutcome(req, validators).code = 422

\* The record of a validator that has just registered, in tokens and points.
FreshlyRegistered(validator, walletAddress, stakeAmount) ==
    /\ validator.walletAddress = walletAddress
    /\ validator.stakedAmount = stakeAmount * StakeScale
    /\ validator.reputation = 500 * RepScale
    /\ validator.totalVotes = 0 /\ validator.correctVotes = 0
    /\ validator.active = TRUE
    /\ validator.lastSlashTime = <<>> /\ validator.slashingHistory = <<>>

\* C18: a registration with a stake below 1000 is answered 400 and leaves
\* the validators as they were; one with a well-formed wallet that is not
\* registered and a stake of at least 1000 is answered 201 and adds a record
\* with that stake, reputation 500, no votes and active = true, leaving the
\* other records alone; and no step adds a record of any other kind.
C18_RegistrationMinimumStake ==
    /\ [](\A req \in RegisterRequests :
            LET out == RegisterOutcome(req, validators) IN
            /\ req.stakeAmount < 1000 => (out.code = 400 /\ out.validators = validators)
            /\ (/\ req.stakeAmount >= 1000
                /\ req.walletAddress \in Wallets
                /\ req.walletAddress \notin DOMAIN validators) =>
                  /\ out.code = 201
                  /\ DOMAIN out.validators = DOMAIN validators \cup {req.walletAddress}
                  /\ FreshlyRegistered(out.validators[req.walletAddress],
                                       req.walletAddress, req.stakeAmount)
                  /\ \A w \in DOMAIN validators : out.validators[w] = validators[w])
    /\ [][\A w \in DOMAIN validators' \ DOMAIN validators :
            \E stakeAmount \in 1000..MaxStake :
                FreshlyRegistered(validators'[w], w, stakeAmount)]_vars

\* A wallet has registered with 2000 tokens and its record is as created;
\* another registration with stake 500 is answered 400 and one with stake
\* 999 too.
C18_Witness ==
    /\ \E w \in DOMAIN validators : FreshlyRegistered(validators[w], w, 2000)
    /\ \E low, below \in RegisterRequests :
          /\ low.stakeAmount = 500 /\ below.stakeAmount = 999
          /\ RegisterOutcome(low, validators).code = 400
          /\ RegisterOutcome(below, validators).code = 400

\* What a slashing does to a record, at time t.
SlashedFrom(before, after, t) ==
    /\ 10 * (before.stakedAmount - after.stakedAmount) = before.stakedAmount
    /\ after.reputation = IF before.reputation >= 50 * RepScale
                          THEN before.reputation - 50 * RepScale ELSE 0
    /\ after.lastSlashTime = <<t>>
    /\ Len(after.slashingHistory) = Len(before.slashingHistory) + 1
    /\ SubSeq(after.slashingHistory, 1, Len(before.slashingHistory))
          = before.slashingHistory
    /\ after.totalVotes = before.totalVotes
    /\ after.correctVotes = before.correctVotes

\* Reputations at and around the floor of a slashing; the program reaches
\* them only by runs longer than the bounds.
LowReputations == {0, 49 * RepScale, 50 * RepScale, 51 * RepScale}

\* C19: a valid slash request for a registered validator is answered 200 and
\* lowers its stake by exactly a tenth of the stake it had, lowers its
\* reputation by 50 but not below 0, sets lastSlashTime to the time of the
\* request and appends one entry to slashingHistory, leaving the other
\* validators alone; a slash request for an unknown validator is answered
\* 404 and changes nothing.
C19_SlashingEffect ==
    /\ \A req \in SlashRequests :
          LET out == SlashOutcome(req, validators, now) IN
          IF req.reason # "collusion" THEN TRUE
          ELSE IF req.validatorAddress \notin DOMAIN validators
          THEN out.code = 404 /\ out.validators = validators
          ELSE /\ out.code = 200
               /\ DOMAIN out.validators = DOMAIN validators
               /\ SlashedFrom(validators[req.validatorAddress],
                              out.validators[req.validatorAddress], now)
               /\ \A w \in DOMAIN validators \ {req.validatorAddress} :
                      out.validators[w] = validators[w]
    /\ \A w \in DOMAIN validators : \A r \in LowReputations :
          LET v == [validators[w] EXCEPT !.reputation = r] IN
          SlashedFrom(v, executeSlashing(v, "collusion",
                                         stakingConfig.slashPercentage, now).validator, now)

\* A validator that registered with 2000 tokens and was slashed once, after
\* time 0: its stake is 1800, its reputation 450, and a slash request for the
\* unregistered wallet is answered 404.
C19_Witness ==
    /\ \E w \in DOMAIN validators :
          /\ validators[w].stakedAmount = 1800 * StakeScale
          /\ validators[w].reputation = 450 * RepScale
          /\ Len(validators[w].slashingHistory) = 1
          /\ validators[w].lastSlashTime # <<>>
          /\ validators[w].lastSlashTime # <<0>>
    /\ \E req \in SlashRequests :
          SlashOutcome(req, validators, now).code = 404

\* Slashed less than 30 days (15 windows) before time t.
InCoolingOff(validator, t) ==
    /\ validator.lastSlashTime # <<>>
    /\ t < validator.lastSlashTime[1] + 15

\* C20: a validator slashed less than 30 days ago is not reported eligible
\* (by calculateValidatorEligibility, and so by GET /:walletAddress) and is in
\* no list built by the handler of GET /eligible, whatever its stake,
\* reputation and votes; from 30 days after its last slash on, its
\* eligibility is what it would be had it never been slashed.
C20_CoolingOff ==
    \A w \in DOMAIN validators :
        LET v == validators[w] IN
        IF InCoolingOff(v, now)
        THEN /\ ~calculateValidatorEligibility(v, now).eligible
             /\ ~GetValidatorOutcome(w, validators, now).eligible
             /\ \A q \in EligibleQueries :
                   w \notin eligibleValidators(validators, now, q.minScore, q.limit)
        ELSE calculateValidatorEligibility(v, now)
                = calculateValidatorEligibility([v EXCEPT !.lastSlashTime = <<>>], now)

\* A validator slashed 14 windows (28 days) ago whose stake, reputation and
\* accuracy would make it eligible: it is reported not eligible.
C20_Witness ==
    \E w \in DOMAIN validators :
        LET v == validators[w] IN
        /\ v.lastSlashTime # <<>>
        /\ now = v.lastSlashTime[1] + 14
        /\ calculateValidatorEligibility([v EXCEPT !.lastSlashTime = <<>>], now).eligible
        /\ ~GetValidatorOutcome(w, validators, now).eligible

\* One update on a reputation: 5% more, at most 1000, or 10% less.
OneUpdate(reputation, correct) ==
    IF correct
    THEN (IF reputation + reputation \div 20 <= 1000 * RepScale
          THEN reputation + reputation \div 20 ELSE 1000 * RepScale)
    ELSE reputation - reputation \div 10

\* The updates of `order`, a sequence of results, applied one after another.
RECURSIVE ApplyInOrder(_, _)
ApplyInOrder(order, reputation) ==
    IF order = <<>> THEN reputation
    ELSE ApplyInOrder(Tail(order), OneUpdate(reputation, Head(order)))

\* The orders of n results of which c are correct.
Orders(n, c) ==
    {order \in [1..n -> BOOLEAN] : Cardinality({i \in 1..n : order[i]}) = c}

\* C27: vote-result updates of one validator are never lost, however the
\* requests interleave with each other and with stake changes and slashings:
\* every report answered 200 raises totalVotes by one, correctVotes by one
\* exactly when the result is correct, and applies the update to the
\* reputation it finds; nothing else changes the counts; and the reputation
\* of a validator that was never slashed is that of its totalVotes updates,
\* correctVotes of them correct, applied to 500 one after another in some
\* order.
C27_NoLostUpdate ==
    /\ [](/\ \A req \in VoteResultRequests :
               (req.walletAddress \in DOMAIN validators /\ req.correct \in {"true", "false"}) =>
                   LET before == validators[req.walletAddress]
                       out    == VoteResultOutcome(req, validators)
                       after  == out.validators[req.walletAddress]
                   IN  /\ out.code = 200
                       /\ after.totalVotes = before.totalVotes + 1
                       /\ after.correctVotes = before.correctVotes
                                               + (IF req.correct = "true" THEN 1 ELSE 0)
                       /\ after.reputation = OneUpdate(before.reputation, req.correct = "true")
                       /\ after.stakedAmount = before.stakedAmount
          /\ \A w \in DOMAIN validators :
               validators[w].slashingHistory = <<>> =>
                   \E order \in Orders(validators[w].totalVotes, validators[w].correctVotes) :
                       validators[w].reputation = ApplyInOrder(order, 500 * RepScale))
    /\ [][\A w \in DOMAIN validators :
            LET before == validators[w]
                after  == validators'[w]
            IN  (after.totalVotes # before.totalVotes
                    \/ after.correctVotes # before.correctVotes) =>
                /\ after.totalVotes = before.totalVotes + 1
                /\ after.correctVotes \in {before.correctVotes, before.correctVotes + 1}
                /\ after.reputation =
                      OneUpdate(before.reputation, after.correctVotes # before.correctVotes)]_vars

\* A validator never slashed with three results applied, two of them
\* correct.
C27_Witness ==
    \E w \in DOMAIN validators :
        /\ validators[w].totalVotes = 3
        /\ validators[w].correctVotes = 2
        /\ validators[w].slashingHistory = <<>>
        /\ validators[w].reputation # 500 * RepScale

MinimumStake == stakingConfig.minimumStake * StakeScale

\* C37: in every reachable state an active validator has at least the
\* minimum stake, and a step that takes the stake of a validator below the
\* minimum, by a decrease or by a slash, leaves it inactive.
C37_ActiveHasMinimumStake ==
    /\ [](\A w \in DOMAIN validators :
              validators[w].active => validators[w].stakedAmount >= MinimumStake)
    /\ [][\A w \in DOMAIN validators :
              (/\ validators'[w].stakedAmount < validators[w].stakedAmount
               /\ validators'[w].stakedAmount < MinimumStake)
              => ~validators'[w].active]_vars

\* A validator whose stake a slash has taken below the minimum.
C37_Witness ==
    \E w \in DOMAIN validators :
        /\ validators[w].stakedAmount < MinimumStake
        /\ validators[w].stakedAmount > 0
        /\ Len(validators[w].slashingHistory) > 0
        /\ ~validators[w].active

\* Inactive with less than the minimum stake, and the stake raised to the
\* minimum or more in this step.
StakeRestored(w) ==
    /\ ~validators[w].active
    /\ validators[w].stakedAmount < MinimumStake
    /\ validators'[w].stakedAmount >= MinimumStake

\* C38 (as claimed): a validator deactivated because its stake fell below
\* the minimum, by a stake decrease or by a slash, is active again after a
\* stake increase that brings its stake to at least the minimum.
C38_ReactivatedByIncrease ==
    [][\A w \in DOMAIN validators : StakeRestored(w) => validators'[w].active]_vars

\* C38 (amended): a validator deactivated by a stake decrease is active
\* again after a stake increase that brings its stake to at least the
\* minimum; a validator deactivated by a slash stays inactive, whatever its
\* stake becomes.
C38_ReactivatedUnlessSlashed ==
    [][\A w \in DOMAIN validators :
          /\ (StakeRestored(w)
                /\ validators[w].deactivationReason = "Stake below minimum requirement")
             => validators'[w].active
          /\ (~validators[w].active
                /\ validators[w].deactivationReason = "Insufficient stake after slashing")
             => ~validators'[w].active]_vars

\* A validator deactivated by a slash whose stake has been raised above the
\* minimum since: it is still inactive.
C38_Witness ==
    \E w \in DOMAIN validators :
        /\ ~validators[w].active
        /\ validators[w].deactivationReason = "Insufficient stake after slashing"
        /\ validators[w].stakedAmount >= MinimumStake

\* 0.4 x reputation / 1000 + 0.3 x min(stake / (5 x minimum stake), 1)
\* + 0.3 x correct / total, in millionths, with `noVotes` as the last term
\* for a validator that has not voted.
ScoreOf(validator, noVotes) ==
    LET reputation == Min(validator.reputation, 1000 * RepScale)
    IN  400 * (reputation \div RepScale) + (400 * (reputation % RepScale)) \div RepScale
        + (60 * Min(validator.stakedAmount, 5 * MinimumStake)) \div StakeScale
        + (IF validator.totalVotes > 0
           THEN (300000 * validator.correctVotes) \div validator.totalVotes
           ELSE noVotes)

\* The validators of the state with two more that registered with 5000 and
\* 4500 tokens and have not voted, and two orders of registration.
WithCompanions ==
    MapSet(MapSet(validators, MockJurors[2], NewValidator(MockJurors[2], 5000)),
           MockJurors[3], NewValidator(MockJurors[3], 4500))

RegistrationOrders ==
    LET own == IF MockJurors[1] \in DOMAIN validators THEN <<MockJurors[1]>> ELSE <<>>
    IN  { own \o <<MockJurors[3], MockJurors[2]>>, <<MockJurors[2], MockJurors[3]>> \o own }

ListQueries == EligibleQueries \cup {[minScore |-> 640000, limit |-> 2]}

\* The list holds at most `limit` validators, highest score first, and they
\* are the highest scores of those that pass the filter.
TopByScore(list, vs, t, minScore, limit) ==
    LET Passing == {w \in DOMAIN vs :
                       /\ vs[w].active
                       /\ calculateValidatorEligibility(vs[w], t).eligible
                       /\ calculateValidatorEligibility(vs[w], t).score >= minScore}
        Listed  == {list[i].walletAddress : i \in 1..Len(list)}
    IN  /\ Len(list) <= limit
        /\ Cardinality(Listed) = Len(list)
        /\ Listed \subseteq Passing
        /\ \A i \in 1..Len(list) :
               list[i].score = calculateValidatorEligibility(vs[list[i].walletAddress], t).score
        /\ \A i, j \in 1..Len(list) : i < j => list[i].score >= list[j].score
        /\ \A w \in Passing \ Listed :
               /\ Len(list) = limit
               /\ calculateValidatorEligibility(vs[w], t).score <= list[Len(list)].score

ListsOrdered ==
    \A wallets \in RegistrationOrders, q \in ListQueries :
        TopByScore(eligibleList(WithCompanions, wallets, now, q.minScore, q.limit),
                   WithCompanions, now, q.minScore, q.limit)

C21_EligibleMeetsFilter ==
    \A w \in DOMAIN validators :
        (\/ calculateValidatorEligibility(validators[w], now).eligible
         \/ \E q \in EligibleQueries :
                w \in eligibleValidators(validators, now, q.minScore, q.limit))
        => /\ validators[w].active
           /\ validators[w].reputation >= 750 * RepScale
           /\ validators[w].stakedAmount >= stakingConfig.minimumStake * StakeScale

-----------------------------------------------------------------------------
(***************************************************************************)
(* Properties of the payout tiers                                          *)
(***************************************************************************)

AiTier(amount, vr) == amount <= 1000 /\ vr.fraudScore < 30 /\ vr.aiApproved

CommunityTier(amount, vr) ==
    vr.communityConsensus /\ vr.jurorApprovalRate >= 66 /\ vr.fraudScore < 50

HighValueTier(amount, vr) == amount > 50000

FraudTier(amount, vr) == vr.fraudScore >= 70

Evaluated == eligibility.result.trigger # Null

-----------------------------------------------------------------------------
(***************************************************************************)
(* Properties of payout execution and the emergency fund                   *)
(***************************************************************************)

ExecuteAnswer(req) == ExecuteOutcome(req, payouts)

EmergencyAnswer(req, stats) == EmergencyOutcome(req, stats, payouts, emergencyFund, now)

\* The tier decision for the claim that /execute looks up.
TierDecision(req) ==
    calculatePayoutEligibility(MockClaim(req.claimId), req.validationResults)

\* The payouts a step creates.
Created == (Len(payouts) + 1)..Len(payouts')

PayoutsWith(trigger) == {i \in 1..Len(payouts) : payouts[i].trigger = trigger}

\* Crisis-active: any of the three conditions.
CrisisActive(stats) ==
    \/ 10 * stats.pendingClaims > 8 * stats.totalFunds
    \/ stats.recentClaimsCount > 50
    \/ 10 * stats.availableLiquidity < stats.totalFunds

\* C12: a payout with trigger MANUAL_OVERRIDE is created only by a request
\* whose tier decision is ineligible and whose override is enabled and names
\* an authorizer and a reason; with an eligible tier decision the payout keeps
\* the tier's trigger whatever the override; and a request whose enabled
\* override lacks the reason or the authorizer is answered 400 and creates no
\* payout.
C12_ManualOverride ==
    /\ [](\A req \in ExecuteRequests :
            LET out == ExecuteAnswer(req) IN
            /\ (out.code = 201 /\ out.trigger = "MANUAL_OVERRIDE") =>
                  /\ ~TierDecision(req).eligible
                  /\ req.override.enabled
                  /\ req.override.authorizedBy # Null
                  /\ req.override.reason # Null
            /\ (out.code = 201 /\ TierDecision(req).eligible) =>
                  /\ out.trigger = TierDecision(req).trigger
                  /\ out.payouts[Len(out.payouts)].trigger = TierDecision(req).trigger
            /\ (req.override.enabled
                  /\ (req.override.reason = Null \/ req.override.authorizedBy = Null)) =>
                  (out.code = 400 /\ out.payouts = payouts))
    /\ [][\A i \in Created :
            payouts'[i].trigger = "MANUAL_OVERRIDE" =>
                \E req \in ExecuteRequests :
                    /\ payouts' = ExecuteAnswer(req).payouts
                    /\ ~TierDecision(req).eligible
                    /\ req.override.enabled
                    /\ req.override.authorizedBy # Null
                    /\ req.override.reason # Null]_vars

\* A payout by manual override and one by community consensus have been
\* created, and an enabled override without a reason is answered 400.
C12_Witness ==
    /\ PayoutsWith("MANUAL_OVERRIDE") # {}
    /\ PayoutsWith("COMMUNITY_CONSENSUS") # {}
    /\ \E req \in ExecuteRequests :
          /\ req.claimId # Null
          /\ req.override.enabled /\ req.override.reason = Null
          /\ req.override.authorizedBy # Null
          /\ ExecuteAnswer(req).code = 400

\* C13: the amount of every payout is at most the amount of the claim it
\* was created for, and the amount of a payout with trigger
\* EMERGENCY_OVERRIDE is at most the fund's available amount as the request
\* found it.
C13_AmountBounded ==
    /\ [](/\ \A req \in ExecuteRequests :
               ExecuteAnswer(req).code = 201 =>
                   ExecuteAnswer(req).payouts[Len(payouts) + 1].amount
                       <= MockClaim(req.claimId).claimAmount
          /\ \A req \in EmergencyRequests, stats \in PoolStatsSamples :
               EmergencyAnswer(req, stats).code = 201 =>
                   LET payout == EmergencyAnswer(req, stats).payouts[Len(payouts) + 1] IN
                   /\ payout.trigger = "EMERGENCY_OVERRIDE"
                   /\ payout.amount <= req.amount
                   /\ payout.amount <= emergencyFund.availableAmount
          /\ \A i \in 1..Len(payouts) :
               payouts[i].trigger # "EMERGENCY_OVERRIDE" =>
                   payouts[i].amount <= MockClaim(payouts[i].claimId).claimAmount)
    /\ [][\A i \in Created :
            payouts'[i].trigger = "EMERGENCY_OVERRIDE" =>
                payouts'[i].amount <= emergencyFund.availableAmount]_vars

\* An emergency payout of 500,000 was created when exactly that much was
\* available: the fund is now empty.
C13_Witness ==
    /\ emergencyFund.availableAmount = 0
    /\ \E i \in PayoutsWith("EMERGENCY_OVERRIDE") : payouts[i].amount = 500000

\* The payouts that POST /execute made for a claim and that have not failed.
ExecutedFor(ps, claimId) ==
    SelectSeq(ps, LAMBDA payout : /\ payout.claimId = claimId
                                  /\ payout.trigger # "EMERGENCY_OVERRIDE"
                                  /\ payout.status \in {"processing", "completed"})

RECURSIVE PaidAmount(_)
PaidAmount(ps) == IF ps = <<>> THEN 0 ELSE Head(ps).amount + PaidAmount(Tail(ps))

\* C40 (as claimed): for every claim the amounts of its payouts that are
\* pending or executed add up to at most the amount of the claim; a request
\* to execute a payout for a claim that has such a payout creates no second
\* one.
C40_PaidAtMostOnce ==
    /\ [](\A req \in ExecuteRequests :
             req.claimId # Null =>
                 PaidAmount(ExecutedFor(payouts, req.claimId))
                     <= MockClaim(req.claimId).claimAmount)
    /\ [][\A req \in ExecuteRequests :
             (Execute(req) /\ req.claimId # Null /\ ExecutedFor(payouts, req.claimId) # <<>>)
             => payouts' = payouts]_vars

\* C14: crisis-active, as checkEmergencyConditions reports it, is the
\* disjunction of pool utilization > 0.80, recent claims > 50 and available
\* liquidity < 10% of the total funds; a valid emergency request made while
\* it is false is answered 422 "Emergency conditions not met" and leaves the
\* payouts and the fund (available amount, last activation) as they were.
C14_RejectedWithoutCrisis ==
    \A stats \in PoolStatsSamples :
        /\ checkEmergencyConditions(stats).emergencyActive = CrisisActive(stats)
        /\ ~CrisisActive(stats) =>
              \A req \in EmergencyRequests :
                  EmergencyValid(req) =>
                      /\ EmergencyAnswer(req, stats).code = 422
                      /\ EmergencyAnswer(req, stats).error = "Emergency conditions not met"
                      /\ EmergencyAnswer(req, stats).payouts = payouts
                      /\ EmergencyAnswer(req, stats).emergencyFund = emergencyFund

\* After an emergency payout has drawn on the fund, a request the fund could
\* pay arrives with the pool half in use and is rejected.
C14_Witness ==
    /\ emergencyFund.lastActivation # <<>>
    /\ \E req \in EmergencyRequests, stats \in PoolStatsSamples :
          /\ 2 * stats.pendingClaims = stats.totalFunds
          /\ req.amount <= emergencyFund.availableAmount
          /\ EmergencyAnswer(req, stats).error = "Emergency conditions not met"

\* C15: 0 <= available amount <= total fund in every state; an emergency
\* request answered 201 leaves the available amount lower by exactly its
\* amount, and one answered otherwise leaves the fund as it was; and no step
\* changes the fund except by creating an EMERGENCY_OVERRIDE payout of the
\* amount by which the available amount falls.
C15_FundDebitedExactly ==
    /\ [](/\ 0 <= emergencyFund.availableAmount
          /\ emergencyFund.availableAmount <= emergencyFund.totalFund
          /\ \A req \in EmergencyRequests, stats \in PoolStatsSamples :
               LET out == EmergencyAnswer(req, stats) IN
               IF out.code = 201
               THEN out.emergencyFund.availableAmount
                        = emergencyFund.availableAmount - req.amount
               ELSE out.emergencyFund = emergencyFund)
    /\ [][emergencyFund' # emergencyFund =>
            /\ Len(payouts') = Len(payouts) + 1
            /\ payouts'[Len(payouts')].trigger = "EMERGENCY_OVERRIDE"
            /\ emergencyFund'.availableAmount
                  = emergencyFund.availableAmount - payouts'[Len(payouts')].amount
            /\ emergencyFund'.totalFund = emergencyFund.totalFund]_vars

\* 300,000 has been paid from the fund, and with a crisis active a request
\* for 900,000 is rejected for insufficient funds.
C15_Witness ==
    /\ emergencyFund.availableAmount = 500000
    /\ \E req \in EmergencyRequests, stats \in PoolStatsSamples :
          /\ req.amount = 900000
          /\ EmergencyAnswer(req, stats).error = "Insufficient emergency funds"

EligibleTriggers ==
    {"AI_APPROVED", "COMMUNITY_CONSENSUS", "MANUAL_OVERRIDE", "EMERGENCY_OVERRIDE"}

\* C16: every payout carries the trigger of an eligible decision; a payout
\* is created with status "processing" (the spec's pending); and from then
\* on it is never removed, its claim, amount and trigger never change, and
\* once "completed" (the spec's executed) it stays so.
C16_CreatedEligibleAndMonotonic ==
    /\ [](\A i \in 1..Len(payouts) :
            /\ payouts[i].trigger \in EligibleTriggers
            /\ payouts[i].status \in {"processing", "completed"})
    /\ [][/\ Len(payouts') >= Len(payouts)
          /\ \A i \in Created : payouts'[i].status = "processing"
          /\ \A i \in 1..Len(payouts) :
               /\ payouts'[i].claimId = payouts[i].claimId
               /\ payouts'[i].amount = payouts[i].amount
               /\ payouts'[i].trigger = payouts[i].trigger
               /\ payouts[i].status = "completed" => payouts'[i].status = "completed"]_vars

\* A completed payout by manual override followed by a payout still
\* processing, while a request with fraud score 0.70 and no override is
\* answered 422.
C16_Witness ==
    /\ \E i, j \in 1..Len(payouts) :
          /\ i < j
          /\ payouts[i].status = "completed" /\ payouts[i].trigger = "MANUAL_OVERRIDE"
          /\ payouts[j].status = "processing"
    /\ \E req \in ExecuteRequests :
          /\ req.validationResults.fraudScore = 70
          /\ ExecuteAnswer(req).code = 422
          /\ ExecuteAnswer(req).trigger = "FRAUD_DETECTED"

\* C17: every payout created is eventually "completed"; only the payout's
\* timer moves a payout out of "processing", that step creates no payout,
\* and no payout ever has another status (none fails, none is retried).
C17_EventuallySettled ==
    /\ \A i \in 1..MaxPayouts :
          (Len(payouts) >= i) ~> (Len(payouts) >= i /\ payouts[i].status = "completed")
    /\ [][\A i \in 1..Len(payouts) :
            payouts'[i].status # payouts[i].status =>
                /\ payouts[i].status = "processing"
                /\ payouts'[i].status = "completed"
                /\ Len(payouts') = Len(payouts)
                /\ emergencyFund' = emergencyFund]_vars

\* Every payout the bound allows has been created and has completed.
C17_Witness ==
    /\ Len(payouts) = MaxPayouts
    /\ \A i \in 1..Len(payouts) : payouts[i].status = "completed"

-----------------------------------------------------------------------------
(***************************************************************************)
(* Properties of escrow and the insurance pool                             *)
(***************************************************************************)

\* POST /api/escrow/initiate answered req with 201 in this step.
Initiated(req) ==
    /\ InitiateOutcome(req, escrowService).code = 201
    /\ escrowService' = InitiateOutcome(req, escrowService).service
    /\ escrowService' # escrowService

\* C29 (as claimed): after an escrow is initiated with an insurance
\* contribution c, the total balance GET /api/pool/status reports is the
\* balance it reported before plus c.
C29_PoolStatusGrowsByContribution ==
    [][\A req \in InitiateRequests :
          (Initiated(req) /\ req.insuranceContribution # <<>>) =>
              getInsurancePoolStatus(poolService').totalBalance =
                  PoolStatus.totalBalance + req.insuranceContribution[1]]_vars

\* The escrows of a service that are cancelled.
CancelledRides(service) ==
    {r \in DOMAIN service.escrows : service.escrows[r].status = "cancelled"}

RECURSIVE SumAmounts(_)
SumAmounts(contributions) ==
    IF contributions = <<>> THEN 0
    ELSE Head(contributions).amount + SumAmounts(Tail(contributions))

\* C30: cancelling an escrow leaves the insurance pool as it was: in every
\* step that cancels an escrow the total, the count and the log of
\* contributions of both services are unchanged, the refund recorded is
\* nine tenths of the ride amount and no part of a contribution; and with
\* escrows cancelled the pool still holds every contribution logged.
C30_CancelLeavesPool ==
    /\ [][CancelledRides(escrowService') # CancelledRides(escrowService) =>
            /\ escrowService'.insurancePool = escrowService.insurancePool
            /\ poolService' = poolService
            /\ \A r \in CancelledRides(escrowService') \ CancelledRides(escrowService) :
                   escrowService'.escrows[r].refundAmount
                       = <<9 * escrowService.escrows[r].amount>>]_vars
    /\ [](/\ escrowService.insurancePool.totalContributions
                 = SumAmounts(escrowService.insurancePool.contributions)
          /\ escrowService.insurancePool.contributorCount
                 = Len(escrowService.insurancePool.contributions)
          /\ \A req \in ActionRequests :
                 CancelOutcome(req, escrowService).service.insurancePool
                     = escrowService.insurancePool)

\* An escrow initiated with a contribution of 2 coins has been cancelled
\* and the pool of the escrow service holds the 2 coins.
C30_Witness ==
    /\ CancelledRides(escrowService) # {}
    /\ escrowService.insurancePool.totalContributions = 200
    /\ escrowService.insurancePool.contributorCount = 1

-----------------------------------------------------------------------------
(***************************************************************************)
(* Properties of claims and fraud scoring                                  *)
(***************************************************************************)

Distinct(seq) == \A i, j \in 1..Len(seq) : seq[i] = seq[j] => i = j

\* C31 (as claimed): a ride has at most one escrow.  An initiate request for
\* a ride that has an escrow when the handler comes back from getEscrow is
\* answered 409 and leaves the escrows and the pool as they were, also when
\* another initiate for the ride ran between its awaits; so the pool logs
\* at most one contribution for each escrow.
C31_DuplicateInitiateRejected ==
    /\ [](Len(escrowService.insurancePool.contributions)
             <= Cardinality(DOMAIN escrowService.escrows))
    /\ [][(/\ Resume
           /\ Head(inflight).kind = "initiate"
           /\ Head(inflight).pc = "getEscrow"
           /\ Head(inflight).req.rideId \in DOMAIN escrowService.escrows)
          => /\ Resumed(Head(inflight), escrowService).code = 409
             /\ escrowService' = escrowService]_vars

\* The handler is about to call releaseEscrow or cancelEscrow.
Attempts(h) ==
    /\ h.valid
    /\ \/ h.kind = "release" /\ h.pc = "validateSignature"
       \/ h.kind = "cancel" /\ h.pc = "validateSignature2"

\* C36: the status of an escrow is always active, released or cancelled; an
\* escrow is active when it is created; a released or cancelled escrow is
\* never changed again, so none is ever both; a release or cancel that
\* reaches an escrow that is not active throws, is answered 500 and leaves
\* the service as it was, also when a release and a cancel of the ride are
\* in flight together.
C36_TerminalStatus ==
    /\ [](\A rideId \in DOMAIN escrowService.escrows :
             escrowService.escrows[rideId].status \in {"active", "released", "cancelled"})
    /\ [][/\ \A rideId \in DOMAIN escrowService'.escrows :
               rideId \notin DOMAIN escrowService.escrows
               => escrowService'.escrows[rideId].status = "active"
          /\ \A rideId \in DOMAIN escrowService.escrows :
               escrowService.escrows[rideId].status \in {"released", "cancelled"}
               => /\ rideId \in DOMAIN escrowService'.escrows
                  /\ escrowService'.escrows[rideId] = escrowService.escrows[rideId]
          /\ (/\ Resume
              /\ Head(inflight).kind \in {"release", "cancel"}
              /\ Head(inflight).found
              /\ escrowService.escrows[Head(inflight).req.rideId].status # "active")
             => LET out == Resumed(Head(inflight), escrowService)
                IN  /\ escrowService' = escrowService
                    /\ Attempts(Head(inflight)) => out.handler[1].threw
                    /\ Head(inflight).threw => out.code = 500]_vars

\* A release and a cancel of one ride started together: the release has
\* been done and the cancel, with a valid signature, has thrown.
C36_Witness ==
    /\ "ride_001" \in DOMAIN escrowService.escrows
    /\ escrowService.escrows["ride_001"].status = "released"
    /\ \E i \in 1..Len(inflight) :
          /\ inflight[i].kind = "cancel"
          /\ inflight[i].pc = "cancelEscrow"
          /\ inflight[i].valid
          /\ inflight[i].threw

\* C22 (as claimed): every review session created for a claim has a panel
\* of between 5 and 7 distinct jurors.
C22_PanelOfFiveToSeven ==
    \A i \in 1..Len(claimReviews) :
        /\ Len(claimReviews[i].jurors) \in 5..7
        /\ Distinct(claimReviews[i].jurors)

\* The review sessions of a claim that are not finalized.
OpenReviews(claimId) ==
    {i \in 1..Len(claimReviews) :
        /\ claimReviews[i].claimId = claimId
        /\ claimReviews[i].status \in {"pending_jurors", "in_review"}}

\* C23 (as claimed): in every reachable state each claim has at most one
\* review session that is not finalized.
C23_OneOpenReviewPerClaim ==
    \A claimId \in 1..Len(claims) : Cardinality(OpenReviews(claimId)) <= 1

InUnit(aiAssessment) ==
    /\ aiAssessment.fraudScore \in 0..10000
    /\ aiAssessment.confidence \in 0..100

\* C24: every fraud assessment, computed by calculateAdvancedFraudScore on
\* any combination of the subscores its factors return or by
\* calculateFraudScore on any claim, number of documents and draws, and
\* every assessment attached to a claim or to its review, has a fraud
\* score in [0,1] and a confidence in [0,1].
C24_ScoreAndConfidenceInUnit ==
    /\ assessment # NoAssessment => InUnit(assessment[1])
    /\ \A i \in 1..Len(claims) :
           claims[i].aiAssessment # <<>> => InUnit(claims[i].aiAssessment[1])
    /\ \A i \in 1..Len(claimReviews) : InUnit(claimReviews[i].aiAssessment)

\* calculateFraudScore has returned the most it can: every factor set, a
\* score of 1 and a confidence of 0.99.
C24_Witness ==
    /\ assessment # NoAssessment
    /\ assessment[1].fraudScore = 10000
    /\ assessment[1].confidence = 99
    /\ assessment[1].recommendation = "intensive_review"

\* The action the mapping of the claim gives.
MappedAction(fraudScore, confidence) ==
    IF fraudScore < 3000 THEN "AUTO_APPROVE"
    ELSE IF fraudScore < 6000 THEN "COMMUNITY_REVIEW"
    ELSE IF fraudScore < 8000 THEN "MANUAL_REVIEW"
    ELSE IF confidence >= 80 THEN "REJECT"
    ELSE "MANUAL_REVIEW"

\* A recommendation whatever the case it is written in.
UpperCase(recommendation) ==
    IF recommendation = "auto_approve" THEN "AUTO_APPROVE"
    ELSE IF recommendation = "community_review" THEN "COMMUNITY_REVIEW"
    ELSE recommendation

\* C25 (as claimed): the recommendation of every assessment, whichever
\* scoring path computed it, is AUTO_APPROVE below 0.30, COMMUNITY_REVIEW
\* from 0.30 to below 0.60, MANUAL_REVIEW from 0.60 to below 0.80, and from
\* 0.80 REJECT when the confidence is at least 0.80, MANUAL_REVIEW when not.
C25_OneMapping ==
    assessment # NoAssessment =>
        UpperCase(assessment[1].recommendation)
            = MappedAction(assessment[1].fraudScore, assessment[1].confidence)

\* C34 (as claimed): a claim that claim processing has recommended for
\* auto-approval is approved exactly when its amount is at most 1000, which
\* is when the payout engine finds it AI_APPROVED.
C34_SameSmallClaimCeiling ==
    \A i \in 1..Len(claims) :
        (/\ claims[i].aiAssessment # <<>>
         /\ claims[i].aiAssessment[1].recommendation = "auto_approve")
        => /\ claims[i].status = "approved" <=> claims[i].claimAmount <= 1000
           /\ claims[i].status = "approved" <=>
                 calculatePayoutEligibility(
                     claims[i],
                     [ aiApproved         |-> TRUE,
                       communityConsensus |-> FALSE,
                       fraudScore         |-> claims[i].aiAssessment[1].fraudScore \div 100,
                       jurorApprovalRate  |-> 0 ]).trigger = "AI_APPROVED"

\* The assessments kept for a claim: the one on the claim and those on
\* its reviews.
Retained(cs, rs, claimId) ==
    {cs[claimId].aiAssessment[i] : i \in 1..Len(cs[claimId].aiAssessment)}
    \cup {rs[i].aiAssessment : i \in {j \in 1..Len(rs) : rs[j].claimId = claimId}}

\* C39 (as claimed): once the status of a claim is "approved", no later
\* operation on the claim, a second processing or an upload of documents
\* included, changes it to another status.
C39_ApprovedStaysApproved ==
    [][\A i \in 1..Len(claims) :
          claims[i].status = "approved" => claims'[i].status = "approved"]_vars

\* The reward records of a referral.
RewardsOf(history, referralId) ==
    {i \in 1..Len(history) : history[i].referralId = referralId}

\* The rewards of the referrals of a user that are completed, each once.
RECURSIVE CompletedRewards(_, _)
CompletedRewards(db, userId) ==
    IF db = <<>> THEN 0
    ELSE (IF Head(db).referrerId = userId /\ Head(db).status = "completed"
          THEN Head(db).rewardAmount ELSE 0)
         + CompletedRewards(Tail(db), userId)

\* C32: a referral is completed at most once.  A completion of a pending
\* referral makes it completed with eligibility met and reward paid and
\* appends exactly one reward record, of that referral; a completion of a
\* completed referral is answered 409 and changes nothing.  In every state
\* a completed referral has one reward record and a pending one none, and a
\* referrer's total rewards are the rewards of its completed referrals.
C32_CompletedOnce ==
    /\ [](/\ \A i \in 1..Len(referralDatabase) :
               /\ referralDatabase[i].status \in {"pending", "completed"}
               /\ Cardinality(RewardsOf(rewardHistory, i))
                     = IF referralDatabase[i].status = "completed" THEN 1 ELSE 0
          /\ \A userId \in {"user_a", "user_b"} :
               totalRewards(rewardHistory, userId)
                   = CompletedRewards(referralDatabase, userId))
    /\ [][\A req \in CompleteRequests :
             (Complete(req) /\ req.referralId \in 1..Len(referralDatabase)) =>
                 LET referral == referralDatabase[req.referralId]
                     out      == CompleteOutcome(req, referralDatabase, rewardHistory)
                 IN  IF referral.status = "completed"
                     THEN /\ out.code = 409
                          /\ UNCHANGED referralVars
                     ELSE /\ out.code = 200
                          /\ referralDatabase' = [referralDatabase EXCEPT ![req.referralId] =
                                 [@ EXCEPT !.status = "completed",
                                           !.eligibilityMet = TRUE,
                                           !.rewardPaid = TRUE]]
                          /\ Len(rewardHistory') = Len(rewardHistory) + 1
                          /\ SubSeq(rewardHistory', 1, Len(rewardHistory)) = rewardHistory
                          /\ rewardHistory'[Len(rewardHistory')].referralId = req.referralId
                          /\ rewardHistory'[Len(rewardHistory')].rewardAmount
                                 = referral.rewardAmount]_vars

\* Both referrals of user_a completed, a driver's at the default reward and
\* a rider's at 15.00: two reward records and 40.00 in total.
C32_Witness ==
    /\ Len(referralDatabase) = 2
    /\ \A i \in 1..2 : /\ referralDatabase[i].referrerId = "user_a"
                       /\ referralDatabase[i].status = "completed"
                       /\ referralDatabase[i].rewardPaid
    /\ Len(rewardHistory) = 2
    /\ totalRewards(rewardHistory, "user_a") = 4000

\* C26 (as claimed): re-assessing a claim keeps the earlier assessments:
\* an assessment kept for a claim is still kept for it after every step.
C26_AssessmentsRetained ==
    [][\A claimId \in 1..Len(claims) :
          Retained(claims, claimReviews, claimId)
              \subseteq Retained(claims', claimReviews', claimId)]_vars

=============================================================================
